---- MODULE Spec2Model ----
(***************************************************************************)
(* A model of polochon's Library: the movie index, the show index and the  *)
(* filesystem they cache, with the ingest (AddMovie, AddShowEpisode),      *)
(* delete (DeleteMovie, DeleteShowEpisode) and RebuildIndex operations.    *)
(*                                                                         *)
(* A directory is a sequence of names (<<"movies", "Foo (2020)">>), a file *)
(* path is a record [dir, stem, ext].  The filesystem is the set of        *)
(* directories that exist and a function from the file paths that exist to *)
(* their content.  A Library operation is an operator from a world         *)
(* [fs, mi, si, log] to a result [w, err]; `fail` is the set of its steps  *)
(* the environment makes fail (an I/O error), and log lists the steps the  *)
(* operation attempted, in order.                                          *)
(***************************************************************************)
EXTENDS Integers, Sequences, FiniteSets, TLC

VARIABLES
    fs,          \* the filesystem: [dirs, files]
    movieIndex,  \* Library.movieIndex: movie id -> file path
    showIndex,   \* Library.showIndex: show id -> season -> episode -> file path
    last,        \* the last Library call that returned: [op, err], and the
                 \* number n of Add and Delete calls made so far
    rb,          \* the RebuildIndex call in progress, its two workers and errc
    ix,          \* the callers inside the movie index, and its lock
    other        \* the packages beside the library: the call in progress there

vars == <<fs, movieIndex, showIndex, last, rb, ix, other>>

(***************************************************************************)
(* Bounds of the model.                                                    *)
(***************************************************************************)
\* How many Add and Delete calls a behaviour makes.  RebuildIndex is not counted:
\* it can run any number of times, between any two of them.
MaxCalls == 2

(***************************************************************************)
(* Configuration and error values.                                         *)
(***************************************************************************)
MovieDir == <<"movies">>
ShowDir == <<"shows">>
\* Where ingested files come from (a download directory outside the library).
TmpDir == <<"tmp">>
VideoExtentions == {"mkv"}

Nil == "nil"
ErrInvalidIndexVideoType == "library: invalid index video type"
ErrMissingMovieFilePath == "library: movie has no file path"
ErrMissingMovieImageURL == "library: missing movie images URL"
ErrMissingShowImageURL == "library: missing URL to download show images"
ErrMissingShowEpisodeFilePath == "library: missing file path"
ErrNotFound == "index: not found"
\* The error of a failed filesystem or network step.
ErrIO(step) == "io error: " \o step

(***************************************************************************)
(* Paths.                                                                  *)
(***************************************************************************)
\* The empty string as a path (movie.Path == "").
EmptyPath == [dir |-> <<>>, stem |-> "", ext |-> ""]

FilePath(d, stem, ext) == [dir |-> d, stem |-> stem, ext |-> ext]

\* filepath.Join(dir, name) for one more directory level.
JoinDir(d, name) == Append(d, name)

\* path.Dir(file)
Dir(p) == p.dir

\* filepath.Join(dir, path.Base(file))
JoinBase(d, p) == [dir |-> d, stem |-> p.stem, ext |-> p.ext]

\* The path with its extension replaced (PathWithoutExt() + "." + ext).
WithExt(p, ext) == [dir |-> p.dir, stem |-> p.stem, ext |-> ext]

NfoPath(p) == WithExt(p, "nfo")

IsPrefix(d, e) == Len(d) <= Len(e) /\ SubSeq(e, 1, Len(d)) = d

Parent(d) == SubSeq(d, 1, Len(d) - 1)

(***************************************************************************)
(* The filesystem.                                                         *)
(***************************************************************************)
DataFile == [kind |-> "data"]
LinkTo(p) == [kind |-> "link", target |-> p]
NfoFile(v) == [kind |-> "nfo", val |-> v]
\* A sidecar that cannot be parsed.
CorruptFile == [kind |-> "corrupt"]

DirExists(f, d) == d = <<>> \/ d \in f.dirs
FileExists(f, p) == p \in DOMAIN f.files

PutFile(f, p, c) ==
    [f EXCEPT !.files = [q \in (DOMAIN f.files) \cup {p} |->
                            IF q = p THEN c ELSE f.files[q]]]

DelFile(f, p) ==
    [f EXCEPT !.files = [q \in (DOMAIN f.files) \ {p} |-> f.files[q]]]

DelTree(f, d) ==
    [dirs |-> {e \in f.dirs : ~IsPrefix(d, e)},
     files |-> [q \in {p \in DOMAIN f.files : ~IsPrefix(d, p.dir)} |-> f.files[q]]]

\* A step of an operation: the resulting world and the error returned.
Ret(w, err) == [w |-> w, err |-> err]

Logged(w, op, ok) == [w EXCEPT !.log = Append(w.log, [op |-> op, ok |-> ok])]

\* exists(path) of a directory
existsDir(w, d) == DirExists(w.fs, d)

\* exists(path) of a file
existsFile(w, p) == FileExists(w.fs, p)

\* os.RemoveAll(dir): removes the tree; no error when it does not exist.
osRemoveAllDir(w, d, op, fail) ==
    IF op \in fail THEN Ret(Logged(w, op, FALSE), ErrIO(op))
    ELSE Ret(Logged([w EXCEPT !.fs = DelTree(w.fs, d)], op, TRUE), Nil)

\* A mutant of osRemoveAllFile: os.Remove, an error when the file does not exist.
osRemoveFile(w, p, op, fail) ==
    IF op \in fail \/ ~FileExists(w.fs, p) THEN Ret(Logged(w, op, FALSE), ErrIO(op))
    ELSE Ret(Logged([w EXCEPT !.fs = DelFile(w.fs, p)], op, TRUE), Nil)

\* os.RemoveAll(file): removes the file; no error when it does not exist.
osRemoveAllFile(w, p, op, fail) ==
    IF op \in fail THEN Ret(Logged(w, op, FALSE), ErrIO(op))
    ELSE Ret(Logged([w EXCEPT !.fs = DelFile(w.fs, p)], op, TRUE), Nil)

\* os.Mkdir(dir): fails when dir exists or its parent does not.
osMkdir(w, d, op, fail) ==
    IF op \in fail \/ DirExists(w.fs, d) \/ ~DirExists(w.fs, Parent(d))
    THEN Ret(Logged(w, op, FALSE), ErrIO(op))
    ELSE Ret(Logged([w EXCEPT !.fs.dirs = @ \cup {d}], op, TRUE), Nil)

\* os.Rename(old, new): fails when old does not exist or new's directory does not.
osRename(w, old, new, op, fail) ==
    IF op \in fail \/ ~FileExists(w.fs, old) \/ ~DirExists(w.fs, new.dir)
    THEN Ret(Logged(w, op, FALSE), ErrIO(op))
    ELSE Ret(Logged([w EXCEPT !.fs = PutFile(DelFile(w.fs, old), new, w.fs.files[old])],
                    op, TRUE), Nil)

\* os.Symlink(target, link): fails when link exists or its directory does not.
osSymlink(w, target, link, op, fail) ==
    IF op \in fail \/ FileExists(w.fs, link) \/ ~DirExists(w.fs, link.dir)
    THEN Ret(Logged(w, op, FALSE), ErrIO(op))
    ELSE Ret(Logged([w EXCEPT !.fs = PutFile(w.fs, link, LinkTo(target))], op, TRUE), Nil)

\* writeNFOFile(path, entity): creates or overwrites the sidecar.
writeNFOFile(w, p, v, op, fail) ==
    IF op \in fail \/ ~DirExists(w.fs, p.dir)
    THEN Ret(Logged(w, op, FALSE), ErrIO(op))
    ELSE Ret(Logged([w EXCEPT !.fs = PutFile(w.fs, p, NfoFile(v))], op, TRUE), Nil)

\* download(url, savePath): fetches the image into savePath.
download(w, p, op, fail) ==
    IF op \in fail \/ ~DirExists(w.fs, p.dir)
    THEN Ret(Logged(w, op, FALSE), ErrIO(op))
    ELSE Ret(Logged([w EXCEPT !.fs = PutFile(w.fs, p, DataFile)], op, TRUE), Nil)

\* readNFOFile(path, entity) succeeds: the sidecar exists and parses.
NfoReadable(f, p) == FileExists(f, p) /\ f.files[p].kind = "nfo"

(***************************************************************************)
(* MovieIndex: movie id -> path.                                           *)
(***************************************************************************)
EmptyIndex == [x \in {} |-> x]

MovieIndexHas(w, id) == id \in DOMAIN w.mi

\* Add(movie): overwrites the entry of the movie's id.
MovieIndexAdd(w, m) ==
    Ret(Logged([w EXCEPT !.mi = [x \in (DOMAIN w.mi) \cup {m.id} |->
                                    IF x = m.id THEN m.path ELSE w.mi[x]]],
               "MovieIndexAdd", TRUE), Nil)

\* A mutant of MovieIndexRemove: removing an absent movie is no error.
MovieIndexRemoveAbsentOk(w, m) ==
    Ret(Logged([w EXCEPT !.mi = [x \in (DOMAIN w.mi) \ {m.id} |-> w.mi[x]]],
               "MovieIndexRemove", TRUE), Nil)

\* Remove(movie): NotFound when the movie's id is absent.
MovieIndexRemove(w, m) ==
    IF m.id \notin DOMAIN w.mi
    THEN Ret(Logged(w, "MovieIndexRemove", FALSE), ErrNotFound)
    ELSE Ret(Logged([w EXCEPT !.mi = [x \in (DOMAIN w.mi) \ {m.id} |-> w.mi[x]]],
                    "MovieIndexRemove", TRUE), Nil)

\* MoviePath(id): [path, err], NotFound when the id is absent.
MoviePath(w, id) ==
    IF MovieIndexHas(w, id) THEN [path |-> w.mi[id], err |-> Nil]
    ELSE [path |-> EmptyPath, err |-> ErrNotFound]

(***************************************************************************)
(* ShowIndex: show id -> season -> episode -> path.                        *)
(***************************************************************************)
HasEpisode(si, s, n, e) ==
    s \in DOMAIN si /\ n \in DOMAIN si[s] /\ e \in DOMAIN si[s][n]

HasSeason(si, s, n) == s \in DOMAIN si /\ n \in DOMAIN si[s]

HasShow(si, s) == s \in DOMAIN si

\* Add(episode): inserts the episode and, if necessary, its season and show.
ShowIndexAdd(w, ep) ==
    LET si == w.si
        s == ep.showID
        n == ep.season
        oldShow == IF s \in DOMAIN si THEN si[s] ELSE EmptyIndex
        oldSeason == IF n \in DOMAIN oldShow THEN oldShow[n] ELSE EmptyIndex
        newSeason == [e \in (DOMAIN oldSeason) \cup {ep.episode} |->
                         IF e = ep.episode THEN ep.path ELSE oldSeason[e]]
        newShow == [k \in (DOMAIN oldShow) \cup {n} |->
                       IF k = n THEN newSeason ELSE oldShow[k]]
    IN Ret(Logged([w EXCEPT !.si = [x \in (DOMAIN si) \cup {s} |->
                                       IF x = s THEN newShow ELSE si[x]]],
                  "ShowIndexAdd", TRUE), Nil)

\* RemoveEpisode(episode): NotFound when absent; removes the episode entry only.
RemoveEpisode(w, ep) ==
    IF ~HasEpisode(w.si, ep.showID, ep.season, ep.episode)
    THEN Ret(Logged(w, "RemoveEpisode", FALSE), ErrNotFound)
    ELSE Ret(Logged([w EXCEPT !.si[ep.showID][ep.season] =
                        [e \in (DOMAIN @) \ {ep.episode} |-> @[e]]],
                    "RemoveEpisode", TRUE), Nil)

\* IsSeasonEmpty(showID, season): [empty, err]
IsSeasonEmpty(w, s, n) ==
    IF ~HasSeason(w.si, s, n) THEN [empty |-> FALSE, err |-> ErrNotFound]
    ELSE [empty |-> DOMAIN w.si[s][n] = {}, err |-> Nil]

\* IsShowEmpty(showID): [empty, err]
IsShowEmpty(w, s) ==
    IF ~HasShow(w.si, s) THEN [empty |-> FALSE, err |-> ErrNotFound]
    ELSE [empty |-> DOMAIN w.si[s] = {}, err |-> Nil]

\* RemoveSeason(show, season): removes the season entry.
RemoveSeason(w, s, n) ==
    IF ~HasSeason(w.si, s, n)
    THEN Ret(Logged(w, "RemoveSeason", FALSE), ErrNotFound)
    ELSE Ret(Logged([w EXCEPT !.si[s] = [k \in (DOMAIN @) \ {n} |-> @[k]]],
                    "RemoveSeason", TRUE), Nil)

\* RemoveShow(show): removes the show entry.
RemoveShow(w, s) ==
    IF ~HasShow(w.si, s)
    THEN Ret(Logged(w, "RemoveShow", FALSE), ErrNotFound)
    ELSE Ret(Logged([w EXCEPT !.si = [x \in (DOMAIN @) \ {s} |-> @[x]]],
                    "RemoveShow", TRUE), Nil)

(***************************************************************************)
(* Movies.  A movie is [id, title, year, path, fanart, thumb]; its sidecar *)
(* holds every field but the path.                                         *)
(***************************************************************************)
NoMovie == [id |-> "", title |-> "", year |-> 0, path |-> EmptyPath,
            fanart |-> "", thumb |-> ""]

MovieNfo(m) == [type |-> "movie", id |-> m.id, title |-> m.title, year |-> m.year,
                fanart |-> m.fanart, thumb |-> m.thumb]

MovieFanartPath(m) == FilePath(Dir(m.path), m.path.stem \o "-fanart", "jpg")

MovieThumbPath(m) == FilePath(Dir(m.path), m.path.stem, "jpg")

\* newMovieFromPath(path): [m, err], the movie read from the file's sidecar.
newMovieFromPath(w, p) ==
    IF ~NfoReadable(w.fs, NfoPath(p)) \/ w.fs.files[NfoPath(p)].val.type # "movie"
    THEN [m |-> NoMovie, err |-> ErrIO("ReadNFO")]
    ELSE LET v == w.fs.files[NfoPath(p)].val
         IN [m |-> [id |-> v.id, title |-> v.title, year |-> v.year, path |-> p,
                    fanart |-> v.fanart, thumb |-> v.thumb],
             err |-> Nil]

\* A mutant of GetMovie: the sidecar is read whatever the index says.
GetMovieUnchecked(w, id) == newMovieFromPath(w, MoviePath(w, id).path)

\* GetMovie(imdbID): [m, err]
GetMovie(w, id) ==
    LET found == MoviePath(w, id)
    IN IF found.err # Nil THEN [m |-> NoMovie, err |-> found.err]
       ELSE newMovieFromPath(w, found.path)

\* A mutant of getMovieDir: the year is never part of the name.
getMovieDirNoYear(m) == JoinDir(MovieDir, m.title)

getMovieDir(m) ==
    IF m.year # 0
    THEN JoinDir(MovieDir, m.title \o " (" \o ToString(m.year) \o ")")
    ELSE JoinDir(MovieDir, m.title)

\* A mutant of DeleteMovie: the index entry first, the directory second.
DeleteMovieIndexFirst(w, m, fail) ==
    LET r1 == MovieIndexRemove(w, m)
    IN IF r1.err # Nil THEN r1
       ELSE osRemoveAllDir(r1.w, Dir(m.path), "RemoveMovieDir", fail)

\* DeleteMovie(m): the directory first, the index entry second.
DeleteMovie(w, m, fail) ==
    LET r1 == osRemoveAllDir(w, Dir(m.path), "RemoveMovieDir", fail)
    IN IF r1.err # Nil THEN r1 ELSE MovieIndexRemove(r1.w, m)

\* AddMovie, lines 106-122: a movie already indexed is deleted first.
AddMovieSupersede(w, movie, fail) ==
    IF ~MovieIndexHas(w, movie.id) THEN Ret(w, Nil)
    ELSE LET old == IF "GetMovie" \in fail
                    THEN [m |-> NoMovie, err |-> ErrIO("GetMovie")]
                    ELSE GetMovie(w, movie.id)
             w1 == Logged(w, "GetMovie", old.err = Nil)
         IN IF old.err # Nil THEN Ret(w1, old.err) ELSE DeleteMovie(w1, old.m, fail)

\* A mutant of AddMovieImages: the fanart is fetched before the URLs are checked.
AddMovieImagesFetchFirst(w, movie, fail) ==
    LET r1 == download(w, MovieFanartPath(movie), "DownloadFanart", fail)
    IN IF r1.err # Nil THEN r1
       ELSE IF movie.fanart = "" \/ movie.thumb = ""
       THEN Ret(r1.w, ErrMissingMovieImageURL)
       ELSE download(r1.w, MovieThumbPath(movie), "DownloadThumb", fail)

\* AddMovie, lines 174-197: the artwork check and the two downloads.
AddMovieImages(w, movie, fail) ==
    IF movie.fanart = "" \/ movie.thumb = "" THEN Ret(w, ErrMissingMovieImageURL)
    ELSE LET r1 == download(w, MovieFanartPath(movie), "DownloadFanart", fail)
         IN IF r1.err # Nil THEN r1
            ELSE download(r1.w, MovieThumbPath(movie), "DownloadThumb", fail)

\* A mutant of AddMovieStore: a link that cannot be made ends the ingest.
AddMovieStoreLinkFatal(w, movie, fail) ==
    LET storePath == getMovieDir(movie)
    IN IF Dir(movie.path) = storePath THEN Ret(w, Nil)
       ELSE
       LET r1 == IF existsDir(w, storePath)
                 THEN osRemoveAllDir(w, storePath, "RemoveStoreDir", fail)
                 ELSE Ret(w, Nil)
       IN IF r1.err # Nil THEN r1 ELSE
       LET r2 == osMkdir(r1.w, storePath, "Mkdir", fail)
       IN IF r2.err # Nil THEN r2 ELSE
       LET newPath == JoinBase(storePath, movie.path)
           r3 == osRename(r2.w, movie.path, newPath, "Rename", fail)
       IN IF r3.err # Nil THEN r3 ELSE
       LET moved == [movie EXCEPT !.path = newPath]
           r4 == osSymlink(r3.w, newPath, movie.path, "Symlink", fail)
       IN IF r4.err # Nil THEN r4 ELSE
       LET r5 == writeNFOFile(r4.w, NfoPath(newPath), MovieNfo(moved), "WriteNFO", fail)
       IN IF r5.err # Nil THEN r5 ELSE
       LET r6 == MovieIndexAdd(r5.w, moved)
       IN IF r6.err # Nil THEN r6 ELSE AddMovieImages(r6.w, moved, fail)

\* AddMovie, lines 124-172: the move into the store, the sidecar and the index.
AddMovieStore(w, movie, fail) ==
    LET storePath == getMovieDir(movie)
    IN IF Dir(movie.path) = storePath THEN Ret(w, Nil)
       ELSE
       LET r1 == IF existsDir(w, storePath)
                 THEN osRemoveAllDir(w, storePath, "RemoveStoreDir", fail)
                 ELSE Ret(w, Nil)
       IN IF r1.err # Nil THEN r1 ELSE
       LET r2 == osMkdir(r1.w, storePath, "Mkdir", fail)
       IN IF r2.err # Nil THEN r2 ELSE
       LET newPath == JoinBase(storePath, movie.path)
           r3 == osRename(r2.w, movie.path, newPath, "Rename", fail)
       IN IF r3.err # Nil THEN r3 ELSE
       LET moved == [movie EXCEPT !.path = newPath]
           r4 == osSymlink(r3.w, newPath, movie.path, "Symlink", fail)
           r5 == writeNFOFile(r4.w, NfoPath(newPath), MovieNfo(moved), "WriteNFO", fail)
       IN IF r5.err # Nil THEN r5 ELSE
       LET r6 == MovieIndexAdd(r5.w, moved)
       IN IF r6.err # Nil THEN r6 ELSE AddMovieImages(r6.w, moved, fail)

\* A mutant of AddMovie: the file path is checked after the supersede.
AddMovieCheckLate(w, movie, fail) ==
    LET r1 == AddMovieSupersede(w, movie, fail)
    IN IF r1.err # Nil THEN r1
       ELSE IF movie.path = EmptyPath THEN Ret(r1.w, ErrMissingMovieFilePath)
       ELSE AddMovieStore(r1.w, movie, fail)

\* AddMovie(movie)
AddMovie(w, movie, fail) ==
    IF movie.path = EmptyPath THEN Ret(w, ErrMissingMovieFilePath)
    ELSE LET r1 == AddMovieSupersede(w, movie, fail)
         IN IF r1.err # Nil THEN r1 ELSE AddMovieStore(r1.w, movie, fail)

(***************************************************************************)
(* Shows and episodes.  An episode is [showID, showTitle, season, episode, *)
(* path, show], where show is the Show attached to it or NoShow (nil).     *)
(***************************************************************************)
NoShow == [id |-> "", title |-> "", fanart |-> "", banner |-> "", poster |-> ""]

NoEpisode == [showID |-> "", showTitle |-> "", season |-> 0, episode |-> 0,
              path |-> EmptyPath, show |-> NoShow]

EpisodeNfo(ep) == [type |-> "episode", showID |-> ep.showID, showTitle |-> ep.showTitle,
                   season |-> ep.season, episode |-> ep.episode]

ShowNfo(s) == [type |-> "show", id |-> s.id, title |-> s.title, fanart |-> s.fanart,
               banner |-> s.banner, poster |-> s.poster]

showNFOPath(showDir) == FilePath(showDir, "tvshow", "nfo")

\* newShowFromPath(nfoPath): [s, err]
newShowFromPath(w, p) ==
    IF ~NfoReadable(w.fs, p) \/ w.fs.files[p].val.type # "show"
    THEN [s |-> NoShow, err |-> ErrIO("ReadNFO")]
    ELSE LET v == w.fs.files[p].val
         IN [s |-> [id |-> v.id, title |-> v.title, fanart |-> v.fanart,
                    banner |-> v.banner, poster |-> v.poster],
             err |-> Nil]

\* newEpisodeFromPath(path): [ep, err], the episode read from the file's sidecar.
newEpisodeFromPath(w, p) ==
    IF ~NfoReadable(w.fs, NfoPath(p)) \/ w.fs.files[NfoPath(p)].val.type # "episode"
    THEN [ep |-> NoEpisode, err |-> ErrIO("ReadNFO")]
    ELSE LET v == w.fs.files[NfoPath(p)].val
         IN [ep |-> [showID |-> v.showID, showTitle |-> v.showTitle,
                     season |-> v.season, episode |-> v.episode,
                     path |-> p, show |-> NoShow],
             err |-> Nil]

\* EpisodePath(imdbID, season, episode): [path, err], NotFound when absent.
EpisodePath(w, s, n, e) ==
    IF HasEpisode(w.si, s, n, e) THEN [path |-> w.si[s][n][e], err |-> Nil]
    ELSE [path |-> EmptyPath, err |-> ErrNotFound]

\* GetEpisode(imdbID, season, episode): [ep, err]
GetEpisode(w, s, n, e) ==
    LET found == EpisodePath(w, s, n, e)
    IN IF found.err # Nil THEN [ep |-> NoEpisode, err |-> found.err]
       ELSE newEpisodeFromPath(w, found.path)

(***************************************************************************)
(* filepath.Walk visits the entries of a directory in lexical order.       *)
(***************************************************************************)
\* The names of the model, in byte order.
NameOrder == <<"Bar", "Foo", "Foo (2020)", "Season 1", "Season 2",
               "a.mkv", "b.mkv", "c.mkv", "d.mkv", "e.mkv", "f.mkv", "g.mkv">>

Rank(name) == CHOOSE i \in 1..Len(NameOrder) : NameOrder[i] = name

\* The names on the way from the root to a file.
Comps(p) == Append(p.dir, p.stem \o "." \o p.ext)

\* a is walked before b: at the first name where they differ, a's sorts first.
WalkedBefore(a, b) ==
    \E i \in 1..Len(a) :
        /\ i <= Len(b)
        /\ SubSeq(a, 1, i - 1) = SubSeq(b, 1, i - 1)
        /\ a[i] # b[i]
        /\ Rank(a[i]) < Rank(b[i])

RECURSIVE WalkFiles(_)
\* The files of a set in the order the walk visits them.
WalkFiles(S) ==
    IF S = {} THEN <<>>
    ELSE LET first == CHOOSE p \in S :
                          \A q \in S \ {p} : WalkedBefore(Comps(p), Comps(q))
         IN <<first>> \o WalkFiles(S \ {first})

RECURSIVE WalkDirs(_)
\* The directories of a set in the order the walk visits them.
WalkDirs(S) ==
    IF S = {} THEN <<>>
    ELSE LET first == CHOOSE d \in S : \A e \in S \ {d} : WalkedBefore(d, e)
         IN <<first>> \o WalkDirs(S \ {first})

\* The files under root the walk callbacks take for videos.
VideoFilesUnder(f, root) ==
    {p \in DOMAIN f.files : IsPrefix(root, p.dir) /\ p.ext \in VideoExtentions}

ChildDirs(f, d) == {e \in f.dirs : Len(e) = Len(d) + 1 /\ IsPrefix(d, e)}

\* buildMovieIndex: the files its callback reads a movie from, in order.
MovieWalk(f) ==
    IF ~DirExists(f, MovieDir) THEN <<>>
    ELSE WalkFiles(VideoFilesUnder(f, MovieDir))

\* buildShowIndex below the root, on the directories ds in turn: a directory
\* with a readable tvshow.nfo is scanned and skipped (SkipDir); below any other
\* directory the walk goes on.
ShowWalkFrom(f, from) ==
    LET walk[ds \in Seq(f.dirs)] ==
            IF ds = <<>> THEN <<>>
            ELSE LET d == Head(ds)
                     show == newShowFromPath([fs |-> f], showNFOPath(d))
                     here == IF show.err = Nil
                             THEN LET files == WalkFiles(VideoFilesUnder(f, d))
                                  IN [i \in 1..Len(files) |->
                                         [showID |-> show.s.id, file |-> files[i]]]
                             ELSE walk[WalkDirs(ChildDirs(f, d))]
                 IN here \o walk[Tail(ds)]
    IN walk[from]

\* buildShowIndex: the [showID, file] pairs scanEpisodes reads an episode from.
ShowWalk(f) == ShowWalkFrom(f, WalkDirs(ChildDirs(f, ShowDir)))

\* d can be listed and read from: neither d nor a directory above it fails.
CanRead(d, faults) ==
    \A e \in faults.noread \cup faults.nostat : ~IsPrefix(e, d)

\* What a walk gets to see of f: a directory that cannot be read is seen, as an
\* entry of the directory above it, and nothing below it is; a root that cannot
\* be stat'ed is not seen at all.  The walk callbacks of buildMovieIndex (lines
\* 55-58) and scanEpisodes (lines 147-150) log the error and return nil, so the
\* walk goes on with what it sees.
Visible(f, faults) ==
    IF faults.noread = {} /\ faults.nostat = {} THEN f
    ELSE [dirs |-> {d \in f.dirs :
                      /\ d \notin faults.nostat
                      /\ d = <<>> \/ CanRead(Parent(d), faults)},
          files |-> [p \in {q \in DOMAIN f.files : CanRead(q.dir, faults)} |->
                        f.files[p]]]

(***************************************************************************)
(* Episodes: ingest and delete.                                            *)
(***************************************************************************)
getShowDir(ep) == JoinDir(ShowDir, ep.showTitle)

getSeasonDir(ep) ==
    JoinDir(JoinDir(ShowDir, ep.showTitle), "Season " \o ToString(ep.season))

\* NewShowFromEpisode(ep)
NewShowFromEpisode(ep) == [NoShow EXCEPT !.id = ep.showID, !.title = ep.showTitle]

\* The error GetDetails returns when it fails; fatal when errors.IsFatal(err).
ErrDetails == "details: not all details found"
ErrDetailsFatal == "details: fatal error"

\* s.GetDetails(log): [s, err].  The provider fills the artwork URLs, fails
\* leaving the show as it was (a non-fatal error), or fails fatally.
GetDetails(s, fail) ==
    IF "GetDetailsFatal" \in fail THEN [s |-> s, err |-> ErrDetailsFatal]
    ELSE IF "GetDetails" \in fail THEN [s |-> s, err |-> ErrDetails]
    ELSE [s |-> [s EXCEPT !.fanart = "u", !.banner = "u", !.poster = "u"], err |-> Nil]

\* addShow, lines 242-271: the artwork check and the three downloads.
addShowImages(w, dir, s, fail) ==
    IF s.fanart = "" \/ s.banner = "" \/ s.poster = "" THEN Ret(w, ErrMissingShowImageURL)
    ELSE LET r1 == download(w, FilePath(dir, "fanart", "jpg"), "DownloadShowFanart", fail)
         IN IF r1.err # Nil THEN r1 ELSE
         LET r2 == download(r1.w, FilePath(dir, "poster", "jpg"), "DownloadShowPoster", fail)
         IN IF r2.err # Nil THEN r2
            ELSE download(r2.w, FilePath(dir, "banner", "jpg"), "DownloadShowBanner", fail)

\* A mutant of addShow: a fatal GetDetails error is logged like any other and
\* the materialization goes on.
addShowNoFatal(w, ep, fail) ==
    LET dir == getShowDir(ep)
        nfoPath == showNFOPath(dir)
    IN IF existsFile(w, nfoPath) THEN Ret(w, Nil)
       ELSE
       LET got == IF ep.show = NoShow
                  THEN GetDetails(NewShowFromEpisode(ep), fail)
                  ELSE [s |-> ep.show, err |-> Nil]
           w0 == IF ep.show = NoShow THEN Logged(w, "GetDetails", got.err = Nil) ELSE w
           r1 == IF ~existsDir(w0, dir) THEN osMkdir(w0, dir, "MkdirShow", fail)
                 ELSE Ret(w0, Nil)
       IN IF r1.err # Nil THEN r1 ELSE
       LET r2 == writeNFOFile(r1.w, nfoPath, ShowNfo(got.s), "WriteShowNFO", fail)
       IN IF r2.err # Nil THEN r2 ELSE addShowImages(r2.w, dir, got.s, fail)

\* addShow(ep)
addShow(w, ep, fail) ==
    LET dir == getShowDir(ep)
        nfoPath == showNFOPath(dir)
    IN IF existsFile(w, nfoPath) THEN Ret(w, Nil)
       ELSE
       LET got == IF ep.show = NoShow
                  THEN GetDetails(NewShowFromEpisode(ep), fail)
                  ELSE [s |-> ep.show, err |-> Nil]
           w0 == IF ep.show = NoShow THEN Logged(w, "GetDetails", got.err = Nil) ELSE w
       IN IF got.err = ErrDetailsFatal THEN Ret(w0, got.err) ELSE
       LET r1 == IF ~existsDir(w0, dir) THEN osMkdir(w0, dir, "MkdirShow", fail)
                 ELSE Ret(w0, Nil)
       IN IF r1.err # Nil THEN r1 ELSE
       LET r2 == writeNFOFile(r1.w, nfoPath, ShowNfo(got.s), "WriteShowNFO", fail)
       IN IF r2.err # Nil THEN r2 ELSE addShowImages(r2.w, dir, got.s, fail)

\* A mutant of the cascade: the show check runs before the season check.
DeleteShowEpisodeCascadeShowFirst(w, se, fail) ==
    LET e2 == IsShowEmpty(w, se.showID)
        w2 == Logged(w, "IsShowEmpty", e2.err = Nil)
    IN IF e2.err # Nil THEN Ret(w2, e2.err) ELSE
    LET r2 == IF e2.empty
              THEN LET d == osRemoveAllDir(w2, getShowDir(se), "RemoveShowDir", fail)
                   IN IF d.err # Nil THEN d ELSE RemoveShow(d.w, se.showID)
              ELSE Ret(w2, Nil)
    IN IF r2.err # Nil THEN r2 ELSE
    LET e1 == IsSeasonEmpty(r2.w, se.showID, se.season)
        w1 == Logged(r2.w, "IsSeasonEmpty", e1.err = Nil)
    IN IF e1.err # Nil THEN Ret(w1, e1.err) ELSE
    IF e1.empty
    THEN LET d == osRemoveAllDir(w1, getSeasonDir(se), "RemoveSeasonDir", fail)
         IN IF d.err # Nil THEN d ELSE RemoveSeason(d.w, se.showID, se.season)
    ELSE Ret(w1, Nil)

\* DeleteShowEpisode, lines 395-431: the season check, then the show check.
DeleteShowEpisodeCascade(w, se, fail) ==
    LET e1 == IsSeasonEmpty(w, se.showID, se.season)
        w1 == Logged(w, "IsSeasonEmpty", e1.err = Nil)
    IN IF e1.err # Nil THEN Ret(w1, e1.err) ELSE
    LET r1 == IF e1.empty
              THEN LET d == osRemoveAllDir(w1, getSeasonDir(se), "RemoveSeasonDir", fail)
                   IN IF d.err # Nil THEN d ELSE RemoveSeason(d.w, se.showID, se.season)
              ELSE Ret(w1, Nil)
    IN IF r1.err # Nil THEN r1 ELSE
    LET e2 == IsShowEmpty(r1.w, se.showID)
        w2 == Logged(r1.w, "IsShowEmpty", e2.err = Nil)
    IN IF e2.err # Nil THEN Ret(w2, e2.err) ELSE
    IF e2.empty
    THEN LET d == osRemoveAllDir(w2, getShowDir(se), "RemoveShowDir", fail)
         IN IF d.err # Nil THEN d ELSE RemoveShow(d.w, se.showID)
    ELSE Ret(w2, Nil)

\* DeleteShowEpisode(se)
DeleteShowEpisode(w, se, fail) ==
    LET r1 == osRemoveAllFile(w, se.path, "RemoveEpisodeFile", fail)
    IN IF r1.err # Nil THEN r1 ELSE
    LET r2 == osRemoveAllFile(r1.w, WithExt(se.path, "nfo"), "RemoveEpisodeNfo", fail)
    IN IF r2.err # Nil THEN r2 ELSE
    LET r3 == osRemoveAllFile(r2.w, WithExt(se.path, "srt"), "RemoveEpisodeSrt", fail)
    IN IF r3.err # Nil THEN r3 ELSE
    LET r4 == RemoveEpisode(r3.w, se)
    IN IF r4.err # Nil THEN r4 ELSE DeleteShowEpisodeCascade(r4.w, se, fail)

\* AddShowEpisode, lines 280-294: an episode already indexed is deleted first.
AddShowEpisodeSupersede(w, ep, fail) ==
    IF ~HasEpisode(w.si, ep.showID, ep.season, ep.episode) THEN Ret(w, Nil)
    ELSE LET old == IF "GetEpisode" \in fail
                    THEN [ep |-> NoEpisode, err |-> ErrIO("GetEpisode")]
                    ELSE GetEpisode(w, ep.showID, ep.season, ep.episode)
             w1 == Logged(w, "GetEpisode", old.err = Nil)
         IN IF old.err # Nil THEN Ret(w1, old.err)
            ELSE DeleteShowEpisode(w1, old.ep, fail)

\* A mutant of AddShowEpisodeStore: the episode is registered as soon as the file
\* is in place, before its sidecar is written.
AddShowEpisodeStoreIndexFirst(w, ep, fail) ==
    LET seasonDir == getSeasonDir(ep)
        r1 == IF ~existsDir(w, seasonDir) THEN osMkdir(w, seasonDir, "MkdirSeason", fail)
              ELSE Ret(w, Nil)
    IN IF r1.err # Nil THEN r1 ELSE
    IF Dir(ep.path) = seasonDir THEN Ret(r1.w, Nil) ELSE
    LET newPath == JoinBase(seasonDir, ep.path)
        r2 == osRename(r1.w, ep.path, newPath, "Rename", fail)
    IN IF r2.err # Nil THEN r2 ELSE
    LET moved == [ep EXCEPT !.path = newPath]
        r3 == ShowIndexAdd(r2.w, moved)
        r4 == osSymlink(r3.w, newPath, ep.path, "Symlink", fail)
    IN writeNFOFile(r4.w, NfoPath(newPath), EpisodeNfo(moved), "WriteNFO", fail)

\* A mutant of AddShowEpisodeStore: a season directory that exists is removed
\* and made again, as AddMovie does with the directory of a movie.
AddShowEpisodeStoreFresh(w, ep, fail) ==
    LET seasonDir == getSeasonDir(ep)
        r0 == IF existsDir(w, seasonDir)
              THEN osRemoveAllDir(w, seasonDir, "RemoveSeasonDir", fail)
              ELSE Ret(w, Nil)
    IN IF r0.err # Nil THEN r0 ELSE
    LET r1 == osMkdir(r0.w, seasonDir, "MkdirSeason", fail)
    IN IF r1.err # Nil THEN r1 ELSE
    IF Dir(ep.path) = seasonDir THEN Ret(r1.w, Nil) ELSE
    LET newPath == JoinBase(seasonDir, ep.path)
        r2 == osRename(r1.w, ep.path, newPath, "Rename", fail)
    IN IF r2.err # Nil THEN r2 ELSE
    LET moved == [ep EXCEPT !.path = newPath]
        r3 == osSymlink(r2.w, newPath, ep.path, "Symlink", fail)
        r4 == writeNFOFile(r3.w, NfoPath(newPath), EpisodeNfo(moved), "WriteNFO", fail)
    IN IF r4.err # Nil THEN r4 ELSE ShowIndexAdd(r4.w, moved)

\* AddShowEpisode, lines 301-339: the season directory, the move, the sidecar
\* and the index.
AddShowEpisodeStore(w, ep, fail) ==
    LET seasonDir == getSeasonDir(ep)
        r1 == IF ~existsDir(w, seasonDir) THEN osMkdir(w, seasonDir, "MkdirSeason", fail)
              ELSE Ret(w, Nil)
    IN IF r1.err # Nil THEN r1 ELSE
    IF Dir(ep.path) = seasonDir THEN Ret(r1.w, Nil) ELSE
    LET newPath == JoinBase(seasonDir, ep.path)
        r2 == osRename(r1.w, ep.path, newPath, "Rename", fail)
    IN IF r2.err # Nil THEN r2 ELSE
    LET moved == [ep EXCEPT !.path = newPath]
        r3 == osSymlink(r2.w, newPath, ep.path, "Symlink", fail)
        r4 == writeNFOFile(r3.w, NfoPath(newPath), EpisodeNfo(moved), "WriteNFO", fail)
    IN IF r4.err # Nil THEN r4 ELSE ShowIndexAdd(r4.w, moved)

\* AddShowEpisode(ep)
AddShowEpisode(w, ep, fail) ==
    IF ep.path = EmptyPath THEN Ret(w, ErrMissingShowEpisodeFilePath)
    ELSE LET r1 == AddShowEpisodeSupersede(w, ep, fail)
         IN IF r1.err # Nil THEN r1 ELSE
         LET r2 == addShow(r1.w, ep, fail)
         IN IF r2.err # Nil THEN r2 ELSE AddShowEpisodeStore(r2.w, ep, fail)

(***************************************************************************)
(* The operations on a polochon.Video, which dispatch on its kind.  A video *)
(* is [kind, v]: a movie, an episode, or anything else that implements the  *)
(* interface.                                                               *)
(***************************************************************************)
\* HasMovie(imdbID): [has, err]
HasMovie(w, id) == [has |-> MovieIndexHas(w, id), err |-> Nil]

\* HasShowEpisode(imdbID, season, episode): [has, err]
HasShowEpisode(w, s, n, e) == [has |-> HasEpisode(w.si, s, n, e), err |-> Nil]

\* HasVideo(video): [has, err]
HasVideo(w, video) ==
    CASE video.kind = "movie" -> HasMovie(w, video.v.id)
      [] video.kind = "episode" ->
            HasShowEpisode(w, video.v.showID, video.v.season, video.v.episode)
      [] OTHER -> [has |-> FALSE, err |-> ErrInvalidIndexVideoType]

\* A mutant of Add: a video of another kind is taken without a word.
AddAnyKind(w, video, fail) ==
    CASE video.kind = "movie" -> AddMovie(w, video.v, fail)
      [] video.kind = "episode" -> AddShowEpisode(w, video.v, fail)
      [] OTHER -> Ret(w, Nil)

\* Add(video)
Add(w, video, fail) ==
    CASE video.kind = "movie" -> AddMovie(w, video.v, fail)
      [] video.kind = "episode" -> AddShowEpisode(w, video.v, fail)
      [] OTHER -> Ret(w, ErrInvalidIndexVideoType)

\* Delete(video)
Delete(w, video, fail) ==
    CASE video.kind = "movie" -> DeleteMovie(w, video.v, fail)
      [] video.kind = "episode" -> DeleteShowEpisode(w, video.v, fail)
      [] OTHER -> Ret(w, ErrInvalidIndexVideoType)

(***************************************************************************)
(* The inputs of the model.                                                *)
(***************************************************************************)
MovieIDs == {"tt1", "tt2"}
Titles == {"Foo"}
Years == {0, 2020}
\* The (fanart, thumb) URLs of an ingested movie.
Artwork == {<<"u", "u">>, <<"", "u">>, <<"u", "">>}
\* The files the downloader hands over as movies, and as episodes.
MovieStems == {"a", "b"}
EpisodeStems == {"c", "d"}

ShowIDs == {"ts1", "ts2"}
ShowTitles == {"Bar"}
Seasons == {1, 2}
Episodes == {1, 2}

\* What the environment does to one call: nothing, or one of its steps fails.
FailSets(steps) == {{}} \cup {{x} : x \in steps}

\* The same choices, without the failures that change nothing: a step the call
\* never reaches cannot fail.  log is the log of the call with no failure.
\* GetDetails fails in two ways, of which "GetDetails" is the non-fatal one.
Failures(log, steps) ==
    {{}} \cup {{log[i].op} : i \in {j \in 1..Len(log) : log[j].op \in steps}}
         \cup (IF \E i \in 1..Len(log) : log[i].op = "GetDetails"
               THEN {{"GetDetailsFatal"}} ELSE {})

DeleteMovieSteps == {"RemoveMovieDir"}
AddMovieSteps == {"GetMovie", "RemoveMovieDir", "RemoveStoreDir", "Mkdir", "Rename", "Symlink",
                  "WriteNFO", "DownloadFanart", "DownloadThumb"}
DeleteShowEpisodeSteps == {"RemoveEpisodeFile", "RemoveEpisodeNfo", "RemoveEpisodeSrt",
                           "RemoveSeasonDir", "RemoveShowDir"}
AddShowEpisodeSteps == DeleteShowEpisodeSteps \cup
                       {"GetEpisode", "GetDetails", "GetDetailsFatal", "MkdirShow", "WriteShowNFO",
                        "DownloadShowFanart", "DownloadShowPoster", "DownloadShowBanner",
                        "MkdirSeason", "Rename", "Symlink", "WriteNFO"}

\* The regular video files an ingest can be given.
SourceFiles(f, stems) ==
    {p \in DOMAIN f.files :
        p.ext \in VideoExtentions /\ p.stem \in stems /\ f.files[p].kind = "data"}

MovieInputs(f) ==
    {[id |-> id, title |-> t, year |-> y, path |-> p, fanart |-> a[1], thumb |-> a[2]] :
        id \in MovieIDs, t \in Titles, y \in Years,
        p \in SourceFiles(f, MovieStems) \cup {EmptyPath}, a \in Artwork}

FullShow(id, t) == [id |-> id, title |-> t, fanart |-> "u", banner |-> "u", poster |-> "u"]

EpisodeInputs(f) ==
    UNION {{[showID |-> s, showTitle |-> t, season |-> n, episode |-> e, path |-> p,
             show |-> sh] : sh \in {NoShow, FullShow(s, t)}} :
        s \in ShowIDs, t \in ShowTitles, n \in Seasons, e \in Episodes,
        p \in SourceFiles(f, EpisodeStems) \cup {EmptyPath}}

\* The episodes of the show index, as <<show, season, episode>>.
IndexedEpisodes(si) ==
    UNION {UNION {{<<s, n, e>> : e \in DOMAIN si[s][n]} : n \in DOMAIN si[s]} :
        s \in DOMAIN si}

(***************************************************************************)
(* The state machine.                                                      *)
(***************************************************************************)
World == [fs |-> fs, mi |-> movieIndex, si |-> showIndex, log |-> <<>>]

\* No rebuild has been observed to complete just before this one.
NoPrev == [valid |-> FALSE, mi |-> EmptyIndex, si |-> EmptyIndex]

\* What the walks of a rebuild run into: the directories that cannot be read
\* (the walk is told of them, and of the error, and cannot list them) and the
\* roots that cannot be stat'ed (the walk is told of the error only).
NoFaults == [noread |-> {}, nostat |-> {}]

Idle == [pc |-> "idle", mpc |-> "off", mq |-> <<>>, spc |-> "off", sq |-> <<>>,
         errc |-> <<>>, wg |-> 0, prev |-> NoPrev, merr |-> Nil, serr |-> Nil,
         faults |-> NoFaults]

NoCall == [op |-> "New", err |-> Nil, n |-> 0]

FilesIn(d, stems) == [p \in {FilePath(d, st, "mkv") : st \in stems} |-> DataFile]

\* A fresh library: empty roots, and the downloaded files waiting in tmp.
MovieLayout == [dirs |-> {MovieDir, ShowDir, TmpDir}, files |-> FilesIn(TmpDir, MovieStems)]
ShowLayout == [dirs |-> {MovieDir, ShowDir, TmpDir}, files |-> FilesIn(TmpDir, EpisodeStems)]

\* Files(<<p1, c1>>, <<p2, c2>>, ...): the files p1, p2, ... with contents c1, c2, ...
FilesOf(pairs) == [p \in {x[1] : x \in pairs} |-> (CHOOSE x \in pairs : x[1] = p)[2]]

FooDir == JoinDir(MovieDir, "Foo")
Foo2020Dir == JoinDir(MovieDir, "Foo (2020)")
BarDir == JoinDir(ShowDir, "Bar")
BarSeason1 == JoinDir(BarDir, "Season 1")

\* A library at startup: movie tt1 was ingested from tmp/a.mkv by an earlier run,
\* b.mkv waits in tmp.
MovieLibraryLayout ==
    [dirs |-> {MovieDir, ShowDir, TmpDir, FooDir},
     files |-> FilesOf({
        <<FilePath(FooDir, "a", "mkv"), DataFile>>,
        <<FilePath(FooDir, "a", "nfo"),
          NfoFile([type |-> "movie", id |-> "tt1", title |-> "Foo", year |-> 0,
                   fanart |-> "u", thumb |-> "u"])>>,
        <<FilePath(FooDir, "a-fanart", "jpg"), DataFile>>,
        <<FilePath(FooDir, "a", "jpg"), DataFile>>,
        <<FilePath(TmpDir, "a", "mkv"), LinkTo(FilePath(FooDir, "a", "mkv"))>>,
        <<FilePath(TmpDir, "b", "mkv"), DataFile>>})]

\* A library at startup: episode 1x01 of show ts1 was ingested from tmp/c.mkv by
\* an earlier run, d.mkv waits in tmp.
ShowLibraryLayout ==
    [dirs |-> {MovieDir, ShowDir, TmpDir, BarDir, BarSeason1},
     files |-> FilesOf({
        <<showNFOPath(BarDir), NfoFile(ShowNfo(FullShow("ts1", "Bar")))>>,
        <<FilePath(BarDir, "fanart", "jpg"), DataFile>>,
        <<FilePath(BarDir, "poster", "jpg"), DataFile>>,
        <<FilePath(BarDir, "banner", "jpg"), DataFile>>,
        <<FilePath(BarSeason1, "c", "mkv"), DataFile>>,
        <<FilePath(BarSeason1, "c", "nfo"),
          NfoFile([type |-> "episode", showID |-> "ts1", showTitle |-> "Bar",
                   season |-> 1, episode |-> 1])>>,
        <<FilePath(TmpDir, "c", "mkv"), LinkTo(FilePath(BarSeason1, "c", "mkv"))>>,
        <<FilePath(TmpDir, "d", "mkv"), DataFile>>})]

FooShowDir == JoinDir(ShowDir, "Foo")
FooSeason1 == JoinDir(FooShowDir, "Season 1")

\* A library arranged by hand, which only RebuildIndex has to make sense of:
\* movie tt1 in its directory, a video with an unreadable sidecar, movie tt2
\* directly in the movie root; show ts1 with a video without sidecar and
\* episode 1x01, and a directory
\* without show sidecar that holds, one level down, a show sidecar and episode
\* 1x02 of ts2.  None of its files is one an ingest is given.
ScannedLayout ==
    [dirs |-> {MovieDir, ShowDir, TmpDir, FooDir, Foo2020Dir, BarDir, BarSeason1,
               FooShowDir, FooSeason1},
     files |-> FilesOf({
        <<FilePath(FooDir, "e", "mkv"), DataFile>>,
        <<FilePath(FooDir, "e", "nfo"),
          NfoFile([type |-> "movie", id |-> "tt1", title |-> "Foo", year |-> 0,
                   fanart |-> "u", thumb |-> "u"])>>,
        <<FilePath(Foo2020Dir, "e", "mkv"), DataFile>>,
        <<FilePath(Foo2020Dir, "e", "nfo"), CorruptFile>>,
        <<FilePath(MovieDir, "f", "mkv"), DataFile>>,
        <<FilePath(MovieDir, "f", "nfo"),
          NfoFile([type |-> "movie", id |-> "tt2", title |-> "Foo", year |-> 2020,
                   fanart |-> "u", thumb |-> "u"])>>,
        <<showNFOPath(BarDir), NfoFile(ShowNfo(FullShow("ts1", "Bar")))>>,
        <<FilePath(BarSeason1, "e", "mkv"), DataFile>>,
        <<FilePath(BarSeason1, "g", "mkv"), DataFile>>,
        <<FilePath(BarSeason1, "g", "nfo"),
          NfoFile([type |-> "episode", showID |-> "ts1", showTitle |-> "Bar",
                   season |-> 1, episode |-> 1])>>,
        <<showNFOPath(FooSeason1), NfoFile(ShowNfo(FullShow("ts2", "Foo")))>>,
        <<FilePath(FooSeason1, "g", "mkv"), DataFile>>,
        <<FilePath(FooSeason1, "g", "nfo"),
          NfoFile([type |-> "episode", showID |-> "ts2", showTitle |-> "Foo",
                   season |-> 1, episode |-> 2])>>})]

Layouts == {MovieLayout, ShowLayout, MovieLibraryLayout, ShowLibraryLayout,
            ScannedLayout}

\* New(): both indexes empty.
\* The callers of the movie index: two that add a movie each, two that look a
\* movie up.
Writers == {"w1", "w2"}
Readers == {"r1", "r2"}

\* What each writer adds.
Adds == [w1 |-> [id |-> "tt1", path |-> FilePath(FooDir, "a", "mkv")],
         w2 |-> [id |-> "tt2", path |-> FilePath(Foo2020Dir, "b", "mkv")]]

NoWriter == "none"

\* Nobody is in the index: the lock is free, no lookup has returned.  copy[w]
\* is the map as writer w found it, seen[r] what the lookup of reader r gave.
IndexIdle ==
    [pc |-> [p \in Writers \cup Readers |-> "out"],
     writer |-> NoWriter,
     readers |-> {},
     copy |-> [w \in Writers |-> EmptyIndex],
     seen |-> [r \in Readers |-> [id |-> "", found |-> FALSE, path |-> EmptyPath]]]

\* No call is in progress in the other packages.
NoOther == [pc |-> "off"]

Init ==
    /\ fs \in Layouts
    /\ movieIndex = EmptyIndex
    /\ showIndex = EmptyIndex
    /\ last = NoCall
    /\ rb = Idle
    /\ ix = IndexIdle
    /\ other = NoOther

Returned(op, r) ==
    /\ fs' = r.w.fs
    /\ movieIndex' = r.w.mi
    /\ showIndex' = r.w.si
    /\ last' = [op |-> op, err |-> r.err, n |-> last.n + 1]
    /\ UNCHANGED <<rb, ix, other>>

CallAddMovie ==
    /\ rb.pc = "idle"
    /\ last.n < MaxCalls
    /\ \E m \in MovieInputs(fs) :
       \E fail \in Failures(AddMovie(World, m, {}).w.log, AddMovieSteps) :
          Returned("AddMovie", AddMovie(World, m, fail))

\* The delete handler: the movie is looked up by its id, then deleted.
CallDeleteMovie ==
    /\ rb.pc = "idle"
    /\ last.n < MaxCalls
    /\ \E id \in DOMAIN movieIndex, fail \in FailSets(DeleteMovieSteps) :
          LET got == GetMovie(World, id)
          IN /\ got.err = Nil
             /\ Returned("DeleteMovie", DeleteMovie(World, got.m, fail))

CallAddShowEpisode ==
    /\ rb.pc = "idle"
    /\ last.n < MaxCalls
    /\ \E ep \in EpisodeInputs(fs) :
       \E fail \in Failures(AddShowEpisode(World, ep, {}).w.log, AddShowEpisodeSteps) :
          Returned("AddShowEpisode", AddShowEpisode(World, ep, fail))

\* The delete handler: the episode is looked up by its triple, then deleted.
CallDeleteShowEpisode ==
    /\ rb.pc = "idle"
    /\ last.n < MaxCalls
    /\ \E k \in IndexedEpisodes(showIndex), fail \in FailSets(DeleteShowEpisodeSteps) :
          LET got == GetEpisode(World, k[1], k[2], k[3])
          IN /\ got.err = Nil
             /\ Returned("DeleteShowEpisode", DeleteShowEpisode(World, got.ep, fail))

(***************************************************************************)
(* RebuildIndex: the caller and its two workers.                           *)
(***************************************************************************)
\* Lines 16-27: errc, wg.Add(2), movieIndex.Clear(), go buildMovieIndex.
\* A mutant of RebuildStart: the movie index is not cleared.
RebuildStartNoClear ==
    /\ rb.pc = "idle"
    /\ rb' = [pc |-> "clearShows", mpc |-> "run", mq |-> MovieWalk(fs),
              spc |-> "off", sq |-> <<>>, errc |-> <<>>, wg |-> 2,
              merr |-> Nil, serr |-> Nil, faults |-> NoFaults,
              prev |-> IF last.op = "RebuildIndex"
                       THEN [valid |-> TRUE, mi |-> movieIndex, si |-> showIndex]
                       ELSE NoPrev]
    /\ UNCHANGED <<fs, movieIndex, showIndex, last, ix, other>>

\* rb.prev is a history variable: what the indexes held when this rebuild started,
\* kept when the call before it was a rebuild too.  rb.merr and rb.serr are
\* history variables too: what buildMovieIndex and buildShowIndex returned.
RebuildStartWith(faults) ==
    /\ rb.pc = "idle"
    /\ movieIndex' = EmptyIndex
    /\ rb' = [pc |-> "clearShows", mpc |-> "run",
              mq |-> MovieWalk(Visible(fs, faults)),
              spc |-> "off", sq |-> <<>>, errc |-> <<>>, wg |-> 2,
              merr |-> Nil, serr |-> Nil, faults |-> faults,
              prev |-> IF last.op = "RebuildIndex"
                       THEN [valid |-> TRUE, mi |-> movieIndex, si |-> showIndex]
                       ELSE NoPrev]
    /\ UNCHANGED <<fs, showIndex, last, ix, other>>

\* RebuildIndex in a library whose directories can all be read.
RebuildStart == RebuildStartWith(NoFaults)

\* A mutant of RebuildClearShows: it clears the movie index as well, while the
\* movie worker is running.
RebuildClearBoth ==
    /\ rb.pc = "clearShows"
    /\ showIndex' = EmptyIndex
    /\ movieIndex' = EmptyIndex
    /\ rb' = [rb EXCEPT !.pc = "wait", !.spc = "run", !.sq = ShowWalk(fs)]
    /\ UNCHANGED <<fs, last, ix, other>>

\* Lines 104-108: the callback of buildShowIndex starts with file.IsDir(), the
\* walk's error unchecked.  When the show root is not there or cannot be
\* stat'ed the walk calls it with the error and no file info: a nil
\* dereference.
ShowRootPanics(faults) == ~DirExists(fs, ShowDir) \/ ShowDir \in faults.nostat

\* go buildShowIndex: the walk below the show root, or the panic, which ends
\* the process and the movie worker with it.
BuildShowIndexStart(faults) ==
    IF ShowRootPanics(faults)
    THEN [rb EXCEPT !.pc = "panic", !.mpc = "panic", !.spc = "panic"]
    ELSE [rb EXCEPT !.pc = "wait", !.spc = "run", !.sq = ShowWalk(Visible(fs, faults))]

\* Lines 29-36: showIndex.Clear(), go buildShowIndex.
RebuildClearShows ==
    /\ rb.pc = "clearShows"
    /\ showIndex' = EmptyIndex
    /\ rb' = BuildShowIndexStart(rb.faults)
    /\ UNCHANGED <<fs, movieIndex, last, ix, other>>

\* A mutant of MovieWorkerStep: a movie that cannot be read ends the walk.
MovieWorkerStepAbort ==
    /\ rb.mpc = "run"
    /\ rb.mq # <<>>
    /\ LET got == newMovieFromPath(World, Head(rb.mq))
       IN /\ movieIndex' = IF got.err # Nil THEN movieIndex
                           ELSE MovieIndexAdd(World, got.m).w.mi
          /\ rb' = [rb EXCEPT !.mq = IF got.err # Nil THEN <<>> ELSE Tail(@)]
    /\ UNCHANGED <<fs, showIndex, last, ix, other>>

\* buildMovieIndex, the callback on one video file.
MovieWorkerStep ==
    /\ rb.mpc = "run"
    /\ rb.mq # <<>>
    /\ LET got == newMovieFromPath(World, Head(rb.mq))
       IN movieIndex' = IF got.err # Nil THEN movieIndex
                        ELSE MovieIndexAdd(World, got.m).w.mi
    /\ rb' = [rb EXCEPT !.mq = Tail(@)]
    /\ UNCHANGED <<fs, showIndex, last, ix, other>>

\* The error buildMovieIndex returns: its callback never returns one.
buildMovieIndexErr == Nil

\* The error buildShowIndex returns: scanEpisodes' callback never returns one.
buildShowIndexErr == Nil

\* A mutant of ErrcCap: room for one error only.
ErrcCapOne == 2 - 1

\* Line 17: errc := make(chan error, 2).
ErrcCap == 2

WorkerDone(err) == [rb EXCEPT !.errc = IF err # Nil THEN Append(@, err) ELSE @,
                              !.wg = @ - 1]

\* Lines 24-26: buildMovieIndex returns err.  With no error the goroutine is
\* over (wg.Done()); with one it goes on to send it.
MovieWorkerReturn(err) ==
    /\ rb.mpc = "run"
    /\ rb' = IF err = Nil
             THEN [WorkerDone(Nil) EXCEPT !.mpc = "done", !.mq = <<>>]
             ELSE [rb EXCEPT !.mpc = "send", !.merr = err, !.mq = <<>>]
    /\ UNCHANGED <<fs, movieIndex, showIndex, last, ix, other>>

\* Line 25: errc <- err, which blocks while the channel is full; wg.Done().
MovieWorkerSend ==
    /\ rb.mpc = "send"
    /\ Len(rb.errc) < ErrcCap
    /\ rb' = [WorkerDone(rb.merr) EXCEPT !.mpc = "done"]
    /\ UNCHANGED <<fs, movieIndex, showIndex, last, ix, other>>

\* Lines 33-35: buildShowIndex returns err.
ShowWorkerReturn(err) ==
    /\ rb.spc = "run"
    /\ rb' = IF err = Nil
             THEN [WorkerDone(Nil) EXCEPT !.spc = "done", !.sq = <<>>]
             ELSE [rb EXCEPT !.spc = "send", !.serr = err, !.sq = <<>>]
    /\ UNCHANGED <<fs, movieIndex, showIndex, last, ix, other>>

\* Line 34: errc <- err; wg.Done().
ShowWorkerSend ==
    /\ rb.spc = "send"
    /\ Len(rb.errc) < ErrcCap
    /\ rb' = [WorkerDone(rb.serr) EXCEPT !.spc = "done"]
    /\ UNCHANGED <<fs, movieIndex, showIndex, last, ix, other>>

\* The movie worker returns at the end of its walk.
MovieWorkerDone ==
    /\ rb.mq = <<>>
    /\ MovieWorkerReturn(buildMovieIndexErr)

\* scanEpisodes, the callback on one video file of a show directory.
ShowWorkerStep ==
    /\ rb.spc = "run"
    /\ rb.sq # <<>>
    /\ LET item == Head(rb.sq)
           got == newEpisodeFromPath(World, item.file)
       IN showIndex' = IF got.err # Nil THEN showIndex
                       ELSE ShowIndexAdd(World, [got.ep EXCEPT !.showID = item.showID]).w.si
    /\ rb' = [rb EXCEPT !.sq = Tail(@)]
    /\ UNCHANGED <<fs, movieIndex, last, ix, other>>

\* The show worker returns at the end of its walk.
ShowWorkerDone ==
    /\ rb.sq = <<>>
    /\ ShowWorkerReturn(buildShowIndexErr)

\* A mutant of RebuildReturn: it does not wait for the workers.
RebuildReturnNoWait ==
    /\ rb.pc = "wait"
    /\ last' = [op |-> "RebuildIndex", n |-> last.n,
                err |-> IF rb.errc # <<>> THEN Head(rb.errc) ELSE Nil]
    /\ rb' = Idle
    /\ UNCHANGED <<fs, movieIndex, showIndex, ix, other>>

\* Lines 38-48: wg.Wait(), close(errc), the first error if any.
RebuildReturn ==
    /\ rb.pc = "wait"
    /\ rb.wg = 0
    /\ last' = [op |-> "RebuildIndex", n |-> last.n,
                err |-> IF rb.errc # <<>> THEN Head(rb.errc) ELSE Nil]
    /\ rb' = Idle
    /\ UNCHANGED <<fs, movieIndex, showIndex, ix, other>>

Next ==
    \/ CallAddMovie
    \/ CallDeleteMovie
    \/ CallAddShowEpisode
    \/ CallDeleteShowEpisode
    \/ RebuildStart
    \/ RebuildClearShows
    \/ MovieWorkerStep
    \/ MovieWorkerDone
    \/ ShowWorkerStep
    \/ ShowWorkerDone
    \/ RebuildReturn

Spec == Init /\ [][Next]_vars

(***************************************************************************)
(* RebuildIndex with its workers' results left open: buildMovieIndex and   *)
(* buildShowIndex may return an error at any point of their walks, so that *)
(* what RebuildIndex does with errc and wg is checked for every result its *)
(* workers can hand it.  The scheduler runs every goroutine that can take  *)
(* a step; a worker is not bound to fail, nor a caller to call.            *)
(***************************************************************************)
ErrWalk(root) == "walk error: " \o root

\* buildMovieIndex returns an error, at any point of its walk.
MovieWorkerFails ==
    /\ rb.pc # "idle"
    /\ MovieWorkerReturn(ErrWalk("movies"))

\* buildShowIndex returns an error, at any point of its walk.
ShowWorkerFails ==
    /\ rb.pc # "idle"
    /\ ShowWorkerReturn(ErrWalk("shows"))

\* What the goroutines of a running rebuild can do.
RebuildProgress ==
    \/ RebuildClearShows
    \/ MovieWorkerStep
    \/ MovieWorkerDone
    \/ MovieWorkerSend
    \/ ShowWorkerStep
    \/ ShowWorkerDone
    \/ ShowWorkerSend
    \/ RebuildReturn

NextOpenWorkers ==
    \/ RebuildStart
    \/ MovieWorkerFails
    \/ ShowWorkerFails
    \/ RebuildProgress

SpecOpenWorkers == Init /\ [][NextOpenWorkers]_vars /\ WF_vars(RebuildProgress)

(***************************************************************************)
(* The library called through Add, Delete and HasVideo, with videos of     *)
(* every kind.                                                             *)
(***************************************************************************)
\* Videos that are neither a movie nor an episode: a show, a bare file.
OtherVideos ==
    {[kind |-> "show", v |-> FullShow("ts1", "Bar")],
     [kind |-> "file", v |-> [path |-> FilePath(TmpDir, "a", "mkv")]]}

\* The videos a caller can hand to Add.
VideoInputs(f) ==
    {[kind |-> "movie", v |-> m] : m \in MovieInputs(f)}
    \cup {[kind |-> "episode", v |-> ep] : ep \in EpisodeInputs(f)}
    \cup OtherVideos

\* The videos a caller can hand to Delete and HasVideo: those GetMovie and
\* GetEpisode give back, and the others.
IndexedVideos(w) ==
    {[kind |-> "movie", v |-> GetMovie(w, id).m] :
        id \in {x \in DOMAIN w.mi : GetMovie(w, x).err = Nil}}
    \cup {[kind |-> "episode", v |-> GetEpisode(w, k[1], k[2], k[3]).ep] :
        k \in {x \in IndexedEpisodes(w.si) : GetEpisode(w, x[1], x[2], x[3]).err = Nil}}
    \cup OtherVideos

StepsOf(video) ==
    CASE video.kind = "movie" -> AddMovieSteps
      [] video.kind = "episode" -> AddShowEpisodeSteps
      [] OTHER -> {}

CallAdd ==
    /\ rb.pc = "idle"
    /\ last.n < MaxCalls
    /\ \E video \in VideoInputs(fs) :
       \E fail \in Failures(Add(World, video, {}).w.log, StepsOf(video)) :
          Returned("Add", Add(World, video, fail))

CallDelete ==
    /\ rb.pc = "idle"
    /\ last.n < MaxCalls
    /\ \E video \in IndexedVideos(World) :
       \E fail \in FailSets(DeleteMovieSteps \cup DeleteShowEpisodeSteps) :
          Returned("Delete", Delete(World, video, fail))

\* HasVideo reads the indexes and changes nothing.
CallHasVideo ==
    /\ rb.pc = "idle"
    /\ last.n < MaxCalls
    /\ \E video \in IndexedVideos(World) :
          last' = [op |-> "HasVideo", err |-> HasVideo(World, video).err, n |-> last.n + 1]
    /\ UNCHANGED <<fs, movieIndex, showIndex, rb, ix, other>>

NextVideo ==
    \/ CallAdd
    \/ CallDelete
    \/ CallHasVideo

SpecVideo == Init /\ [][NextVideo]_vars

(***************************************************************************)
(* The movie index under concurrent callers.  The index keeps its map      *)
(* behind a lock that admits one writer, or any number of readers.  Add    *)
(* takes the map as it finds it, makes the entry of the id and stores the  *)
(* path in it, three steps that other callers could come between were it   *)
(* not for the lock; MoviePath looks the id up in one step.                *)
(***************************************************************************)
\* A mutant of WriteLockFree: Add does not wait for the lock.
NoWriteLock == TRUE

\* Lock(): nobody holds the lock, to write or to read.
WriteLockFree == ix.writer = NoWriter /\ ix.readers = {}

\* RLock(): nobody holds the lock to write.
ReadLockFree == ix.writer = NoWriter

IndexUnchanged == UNCHANGED <<fs, showIndex, last, rb, other>>

IndexAddLock ==
    \E w \in Writers :
        /\ ix.pc[w] = "out"
        /\ WriteLockFree
        /\ ix' = [ix EXCEPT !.pc[w] = "locked", !.writer = w]
        /\ UNCHANGED movieIndex /\ IndexUnchanged

IndexAddRead ==
    \E w \in Writers :
        /\ ix.pc[w] = "locked"
        /\ ix' = [ix EXCEPT !.pc[w] = "read", !.copy[w] = movieIndex]
        /\ UNCHANGED movieIndex /\ IndexUnchanged

\* The entry of the id is made in the map the writer has read; it has no path
\* yet.
IndexAddInsert ==
    \E w \in Writers :
        /\ ix.pc[w] = "read"
        /\ movieIndex' = [x \in (DOMAIN ix.copy[w]) \cup {Adds[w].id} |->
                             IF x = Adds[w].id THEN EmptyPath ELSE ix.copy[w][x]]
        /\ ix' = [ix EXCEPT !.pc[w] = "entry"]
        /\ IndexUnchanged

IndexAddStore ==
    \E w \in Writers :
        /\ ix.pc[w] = "entry"
        /\ movieIndex' = [x \in (DOMAIN movieIndex) \cup {Adds[w].id} |->
                             IF x = Adds[w].id THEN Adds[w].path ELSE movieIndex[x]]
        /\ ix' = [ix EXCEPT !.pc[w] = "stored"]
        /\ IndexUnchanged

IndexAddUnlock ==
    \E w \in Writers :
        /\ ix.pc[w] = "stored"
        /\ ix' = [ix EXCEPT !.pc[w] = "done", !.writer = NoWriter]
        /\ UNCHANGED movieIndex /\ IndexUnchanged

IndexReadLock ==
    \E r \in Readers :
        /\ ix.pc[r] = "out"
        /\ ReadLockFree
        /\ ix' = [ix EXCEPT !.pc[r] = "locked", !.readers = @ \cup {r}]
        /\ UNCHANGED movieIndex /\ IndexUnchanged

\* MoviePath(id) under the read lock.
IndexReadGet ==
    \E r \in Readers, id \in MovieIDs :
        /\ ix.pc[r] = "locked"
        /\ ix' = [ix EXCEPT !.pc[r] = "got",
                            !.seen[r] = [id |-> id,
                                         found |-> MoviePath(World, id).err = Nil,
                                         path |-> MoviePath(World, id).path]]
        /\ UNCHANGED movieIndex /\ IndexUnchanged

IndexReadUnlock ==
    \E r \in Readers :
        /\ ix.pc[r] = "got"
        /\ ix' = [ix EXCEPT !.pc[r] = "done", !.readers = @ \ {r}]
        /\ UNCHANGED movieIndex /\ IndexUnchanged

NextIndex ==
    \/ IndexAddLock
    \/ IndexAddRead
    \/ IndexAddInsert
    \/ IndexAddStore
    \/ IndexAddUnlock
    \/ IndexReadLock
    \/ IndexReadGet
    \/ IndexReadUnlock

SpecIndex == Init /\ [][NextIndex]_vars

(***************************************************************************)
(* RebuildIndex in a library where a directory cannot be read or a root    *)
(* cannot be stat'ed, with the workers as the code has them.               *)
(***************************************************************************)
\* One fault at a time: a directory of the library that cannot be read, or a
\* root that cannot be stat'ed.
WalkFaults(f) ==
    {[noread |-> {d}, nostat |-> {}] :
        d \in {e \in f.dirs : IsPrefix(MovieDir, e) \/ IsPrefix(ShowDir, e)}}
    \cup {[noread |-> {}, nostat |-> {r}] : r \in {MovieDir, ShowDir}}

RebuildStartFaulty == \E faults \in WalkFaults(fs) : RebuildStartWith(faults)

NextWalkFaults ==
    \/ RebuildStart
    \/ RebuildStartFaulty
    \/ RebuildClearShows
    \/ MovieWorkerStep
    \/ MovieWorkerDone
    \/ ShowWorkerStep
    \/ ShowWorkerDone
    \/ RebuildReturn

SpecWalkFaults == Init /\ [][NextWalkFaults]_vars

(***************************************************************************)
(* The movie calls that return without error, one after the other: no call *)
(* fails, none runs beside another, and nothing else touches the disk.     *)
(***************************************************************************)
\* How many such calls a behaviour makes.
MaxMovieCalls == 3

CallAddMovieOk ==
    /\ last.n < MaxMovieCalls
    /\ \E m \in MovieInputs(fs) :
          LET r == AddMovie(World, m, {})
          IN r.err = Nil /\ Returned("AddMovie", r)

CallDeleteMovieOk ==
    /\ last.n < MaxMovieCalls
    /\ \E id \in DOMAIN movieIndex :
          LET got == GetMovie(World, id)
              r == DeleteMovie(World, got.m, {})
          IN got.err = Nil /\ r.err = Nil /\ Returned("DeleteMovie", r)

NextMovieCalls == CallAddMovieOk \/ CallDeleteMovieOk

SpecMovieCalls == Init /\ [][NextMovieCalls]_vars

(***************************************************************************)
(* package polochon: the qualities of a video.  A string is the sequence   *)
(* of its characters, so that two strings are equal when they have the     *)
(* same characters, case included, as the keys of a Go map are.            *)
(***************************************************************************)
\* How long the strings are that GetQuality is given in full: every string of
\* up to that many characters.
MaxShort == 2

ErrInvalidQuality == "polochon: invalid quality"

Quality480p == <<"4", "8", "0", "p">>
Quality720p == <<"7", "2", "0", "p">>
Quality1080p == <<"1", "0", "8", "0", "p">>
Quality3D == <<"3", "D">>

stringToQuality ==
    [s \in {<<"4", "8", "0", "p">>, <<"7", "2", "0", "p">>,
            <<"1", "0", "8", "0", "p">>, <<"3", "D">>} |->
        CASE s = <<"4", "8", "0", "p">> -> Quality480p
          [] s = <<"7", "2", "0", "p">> -> Quality720p
          [] s = <<"1", "0", "8", "0", "p">> -> Quality1080p
          [] s = <<"3", "D">> -> Quality3D]

\* strings.ToLower, on the letters of the model.
ToLower(s) ==
    [i \in 1..Len(s) |-> CASE s[i] = "P" -> "p" [] s[i] = "D" -> "d" [] OTHER -> s[i]]

\* A mutant of GetQuality: the case of the letters does not count.
GetQualityAnyCase(s) ==
    IF \E k \in DOMAIN stringToQuality : ToLower(k) = ToLower(s)
    THEN [q |-> stringToQuality[CHOOSE k \in DOMAIN stringToQuality :
                                   ToLower(k) = ToLower(s)],
          err |-> Nil]
    ELSE [q |-> <<>>, err |-> ErrInvalidQuality]

\* GetQuality(s): [q, err]
GetQuality(s) ==
    IF s \in DOMAIN stringToQuality THEN [q |-> stringToQuality[s], err |-> Nil]
    ELSE [q |-> <<>>, err |-> ErrInvalidQuality]

Chars == {"0", "1", "2", "3", "4", "7", "8", "p", "P", "d", "D"}

\* The other case of a letter.
SwapCase(c) ==
    CASE c = "p" -> "P" [] c = "P" -> "p" [] c = "d" -> "D" [] c = "D" -> "d"
      [] OTHER -> c

\* The strings one edit away from s: a character dropped, a letter in the other
\* case, a character put before or after.
Variants(s) ==
    {s}
    \cup {SubSeq(s, 1, i - 1) \o SubSeq(s, i + 1, Len(s)) : i \in 1..Len(s)}
    \cup {[s EXCEPT ![i] = SwapCase(s[i])] : i \in 1..Len(s)}
    \cup {Append(s, c) : c \in Chars}
    \cup {<<c>> \o s : c \in Chars}

\* The strings GetQuality is given: the short ones, the names of the qualities
\* and what is one edit away from a name.
QualityInputs ==
    UNION {[1..n -> Chars] : n \in 0..MaxShort}
    \cup UNION {Variants(k) : k \in DOMAIN stringToQuality}

InitQuality ==
    /\ fs = MovieLayout
    /\ movieIndex = EmptyIndex
    /\ showIndex = EmptyIndex
    /\ last = NoCall
    /\ rb = Idle
    /\ ix = IndexIdle
    /\ other \in {[pc |-> "GetQuality", s |-> s, q |-> <<>>, err |-> Nil] :
                    s \in QualityInputs}

CallGetQuality ==
    /\ other.pc = "GetQuality"
    /\ other' = [pc |-> "returned", s |-> other.s,
                 q |-> GetQuality(other.s).q, err |-> GetQuality(other.s).err]
    /\ UNCHANGED <<fs, movieIndex, showIndex, last, rb, ix>>

NextQuality == CallGetQuality

SpecQuality == InitQuality /\ [][NextQuality]_vars

(***************************************************************************)
(* package nfo: the sidecar codec.  A document is an element                *)
(* [tag, text, children]; a text is a sequence of pieces, each a character  *)
(* or a run of characters that has no meaning to the codec.  The strings of *)
(* an entity are such sequences too: Write escapes the markup characters,   *)
(* formats the numbers in decimal and the time as RFC 3339, Read undoes it. *)
(***************************************************************************)
ErrParse == "nfo: parse error"

Leaf(tag, text) == [tag |-> tag, text |-> text, children |-> <<>>]
Block(tag, children) == [tag |-> tag, text |-> <<>>, children |-> children]

DigitChar == <<"0", "1", "2", "3", "4", "5", "6", "7", "8", "9">>
DigitOf(c) == CHOOSE d \in 0..9 : DigitChar[d + 1] = c
IsDigits(t) == Len(t) > 0 /\ \A i \in 1..Len(t) : \E d \in 0..9 : DigitChar[d + 1] = t[i]

\* strconv.Itoa
RECURSIVE FormatNat(_)
FormatNat(n) ==
    IF n < 10 THEN <<DigitChar[n + 1]>>
    ELSE Append(FormatNat(n \div 10), DigitChar[(n % 10) + 1])

\* strconv.Atoi of a text of digits
RECURSIVE ParseNat(_)
ParseNat(t) ==
    IF Len(t) = 1 THEN DigitOf(t[1])
    ELSE ParseNat(SubSeq(t, 1, Len(t) - 1)) * 10 + DigitOf(t[Len(t)])

\* A number written on at least n digits.
Pad(t, n) == [i \in 1..(IF Len(t) < n THEN n - Len(t) ELSE 0) |-> "0"] \o t

\* A rating is kept in tenths: 77 is 7.7 and is written "7.7", 80 is written "8".
FormatTenths(r) ==
    IF r % 10 = 0 THEN FormatNat(r \div 10)
    ELSE FormatNat(r \div 10) \o <<".">> \o FormatNat(r % 10)

\* [ok, n]
ParseTenths(t) ==
    LET dots == {i \in 1..Len(t) : t[i] = "."}
    IN IF dots = {}
       THEN IF IsDigits(t) THEN [ok |-> TRUE, n |-> ParseNat(t) * 10]
            ELSE [ok |-> FALSE, n |-> 0]
       ELSE LET i == CHOOSE j \in dots : TRUE
                whole == SubSeq(t, 1, i - 1)
                frac == SubSeq(t, i + 1, Len(t))
            IN IF Cardinality(dots) = 1 /\ IsDigits(whole) /\ IsDigits(frac) /\ Len(frac) = 1
               THEN [ok |-> TRUE, n |-> ParseNat(whole) * 10 + ParseNat(frac)]
               ELSE [ok |-> FALSE, n |-> 0]

\* The zero time.Time.
ZeroTime == [y |-> 1, mo |-> 1, d |-> 1, h |-> 0, mi |-> 0, s |-> 0]

\* time.Time.MarshalText: RFC 3339, in UTC.
FormatTime(t) ==
    Pad(FormatNat(t.y), 4) \o <<"-">> \o Pad(FormatNat(t.mo), 2) \o <<"-">>
    \o Pad(FormatNat(t.d), 2) \o <<"T">> \o Pad(FormatNat(t.h), 2) \o <<":">>
    \o Pad(FormatNat(t.mi), 2) \o <<":">> \o Pad(FormatNat(t.s), 2) \o <<"Z">>

\* time.Time.UnmarshalText: [ok, t]
ParseTime(t) ==
    IF /\ Len(t) = 20
       /\ t[5] = "-" /\ t[8] = "-" /\ t[11] = "T" /\ t[14] = ":" /\ t[17] = ":"
       /\ t[20] = "Z"
       /\ \A r \in {<<1, 4>>, <<6, 7>>, <<9, 10>>, <<12, 13>>, <<15, 16>>, <<18, 19>>} :
             IsDigits(SubSeq(t, r[1], r[2]))
    THEN [ok |-> TRUE,
          t |-> [y |-> ParseNat(SubSeq(t, 1, 4)), mo |-> ParseNat(SubSeq(t, 6, 7)),
                 d |-> ParseNat(SubSeq(t, 9, 10)), h |-> ParseNat(SubSeq(t, 12, 13)),
                 mi |-> ParseNat(SubSeq(t, 15, 16)), s |-> ParseNat(SubSeq(t, 18, 19))]]
    ELSE [ok |-> FALSE, t |-> ZeroTime]

\* The markup characters are written as entities.
EscapeText(t) ==
    [i \in 1..Len(t) |->
        CASE t[i] = "&" -> "&amp;" [] t[i] = "<" -> "&lt;" [] t[i] = ">" -> "&gt;"
          [] OTHER -> t[i]]

UnescapeText(t) ==
    [i \in 1..Len(t) |->
        CASE t[i] = "&amp;" -> "&" [] t[i] = "&lt;" -> "<" [] t[i] = "&gt;" -> ">"
          [] OTHER -> t[i]]

\* A text that cannot be in a well-formed document: a bare markup character.
WellFormedText(t) == \A i \in 1..Len(t) : t[i] \notin {"&", "<", ">"}

\* A polochon.Movie as the codec sees it: the library's own fields (the
\* VideoMetadata) and the fields the providers give.
ZeroMovie ==
    [dateAdded |-> ZeroTime, quality |-> <<>>, releaseGroup |-> <<>>,
     audioCodec |-> <<>>, videoCodec |-> <<>>, container |-> <<>>,
     imdbID |-> <<>>, originalTitle |-> <<>>, plot |-> <<>>, rating |-> 0,
     runtime |-> 0, sortTitle |-> <<>>, tagline |-> <<>>, thumb |-> <<>>,
     fanart |-> <<>>, title |-> <<>>, tmdbID |-> 0, votes |-> 0, year |-> 0,
     genres |-> <<>>]

\* A mutant of WriteGenres: a genre is written once, however often the movie
\* has it.
WriteGenresOnce(m) ==
    LET g == m.genres
        first == SelectSeq([i \in 1..Len(g) |-> i],
                           LAMBDA i : \A j \in 1..(i - 1) : g[j] # g[i])
    IN [k \in 1..Len(first) |-> Leaf("genre", EscapeText(g[first[k]]))]

\* The genres of a movie, one entry each, in their order.
WriteGenres(m) == [i \in 1..Len(m.genres) |-> Leaf("genre", EscapeText(m.genres[i]))]

\* Write(w, movie): the document of the movie, the genres as repeated entries.
Write(m) ==
    Block("movie",
        <<Block("polochon",
            <<Leaf("date_added", FormatTime(m.dateAdded)),
              Leaf("quality", EscapeText(m.quality)),
              Leaf("release_group", EscapeText(m.releaseGroup)),
              Leaf("audio_codec", EscapeText(m.audioCodec)),
              Leaf("video_codec", EscapeText(m.videoCodec)),
              Leaf("container", EscapeText(m.container))>>),
          Leaf("id", EscapeText(m.imdbID)),
          Leaf("originaltitle", EscapeText(m.originalTitle)),
          Leaf("plot", EscapeText(m.plot)),
          Leaf("rating", FormatTenths(m.rating)),
          Leaf("runtime", FormatNat(m.runtime)),
          Leaf("sorttitle", EscapeText(m.sortTitle)),
          Leaf("tagline", EscapeText(m.tagline)),
          Leaf("thumb", EscapeText(m.thumb)),
          Leaf("customfanart", EscapeText(m.fanart)),
          Leaf("title", EscapeText(m.title)),
          Leaf("tmdbid", FormatNat(m.tmdbID)),
          Leaf("votes", FormatNat(m.votes)),
          Leaf("year", FormatNat(m.year))>>
        \o WriteGenres(m))

\* The first child of that tag, if there is one: [has, text].
Find(cs, tag) ==
    LET at == {i \in 1..Len(cs) : cs[i].tag = tag}
    IN IF at = {} THEN [has |-> FALSE, text |-> <<>>]
       ELSE [has |-> TRUE, text |-> cs[CHOOSE i \in at : \A j \in at : i <= j].text]

\* The number in a text: [ok, n]; 0 when there is no text.
NumberIn(t) ==
    IF t = <<>> THEN [ok |-> TRUE, n |-> 0]
    ELSE IF IsDigits(t) THEN [ok |-> TRUE, n |-> ParseNat(t)]
    ELSE [ok |-> FALSE, n |-> 0]

\* Read(r, movie): [m, err].  An element that is not in the document leaves its
\* field at the zero value; a document that does not parse is a ParseError.
Read(doc) ==
    LET cs == doc.children
        lib == IF Find(cs, "polochon").has
               THEN cs[CHOOSE i \in 1..Len(cs) :
                          /\ cs[i].tag = "polochon"
                          /\ \A j \in 1..Len(cs) : cs[j].tag = "polochon" => i <= j].children
               ELSE <<>>
        date == IF Find(lib, "date_added").has
                THEN ParseTime(Find(lib, "date_added").text)
                ELSE [ok |-> TRUE, t |-> ZeroTime]
        rating == IF Find(cs, "rating").text = <<>> THEN [ok |-> TRUE, n |-> 0]
                  ELSE ParseTenths(Find(cs, "rating").text)
        runtime == NumberIn(Find(cs, "runtime").text)
        tmdbID == NumberIn(Find(cs, "tmdbid").text)
        votes == NumberIn(Find(cs, "votes").text)
        year == NumberIn(Find(cs, "year").text)
        genres == SelectSeq(cs, LAMBDA e : e.tag = "genre")
        Str(from, tag) == UnescapeText(Find(from, tag).text)
    IN IF \/ doc.tag # "movie"
          \/ \E i \in 1..Len(cs) : ~WellFormedText(cs[i].text)
          \/ \E i \in 1..Len(lib) : ~WellFormedText(lib[i].text)
          \/ ~date.ok \/ ~rating.ok \/ ~runtime.ok \/ ~tmdbID.ok \/ ~votes.ok \/ ~year.ok
       THEN [m |-> ZeroMovie, err |-> ErrParse]
       ELSE [m |-> [dateAdded |-> date.t,
                    quality |-> Str(lib, "quality"),
                    releaseGroup |-> Str(lib, "release_group"),
                    audioCodec |-> Str(lib, "audio_codec"),
                    videoCodec |-> Str(lib, "video_codec"),
                    container |-> Str(lib, "container"),
                    imdbID |-> Str(cs, "id"),
                    originalTitle |-> Str(cs, "originaltitle"),
                    plot |-> Str(cs, "plot"),
                    rating |-> rating.n,
                    runtime |-> runtime.n,
                    sortTitle |-> Str(cs, "sorttitle"),
                    tagline |-> Str(cs, "tagline"),
                    thumb |-> Str(cs, "thumb"),
                    fanart |-> Str(cs, "customfanart"),
                    title |-> Str(cs, "title"),
                    tmdbID |-> tmdbID.n,
                    votes |-> votes.n,
                    year |-> year.n,
                    genres |-> [i \in 1..Len(genres) |-> UnescapeText(genres[i].text)]],
             err |-> Nil]

\* The movie and the document of the codec's tests.
now == [y |-> 2019, mo |-> 5, d |-> 7, h |-> 12, mi |-> 0, s |-> 0]

mockMovie ==
    [dateAdded |-> now, quality |-> Quality720p, releaseGroup |-> <<"YTS.AM">>,
     audioCodec |-> <<"Dolby Digital Plus">>, videoCodec |-> <<"H.264">>,
     container |-> <<"mp4">>, imdbID |-> <<"tt2562232">>,
     originalTitle |-> <<"Birdman">>, plot |-> <<"Awesome plot">>, rating |-> 77,
     runtime |-> 119, sortTitle |-> <<"Birdman">>,
     tagline |-> <<"or (The Unexpected Virtue of Ignorance)">>,
     thumb |-> <<"https://image.tmdb.org/t/p/original/rSZs93P0LLxqlVEbI001UKoeCQC.jpg">>,
     fanart |-> <<"https://image.tmdb.org/t/p/original/AsJVim0Hk3KbQPbfjyijfjqmaoZ.jpg">>,
     title |-> <<"Birdman">>, tmdbID |-> 194662, votes |-> 747, year |-> 2014,
     genres |-> <<<<"horror">>, <<"action">>>>]

movieNFOContent ==
    Block("movie",
        <<Block("polochon",
            <<Leaf("date_added", <<"2", "0", "1", "9", "-", "0", "5", "-", "0", "7", "T",
                                   "1", "2", ":", "0", "0", ":", "0", "0", "Z">>),
              Leaf("quality", <<"7", "2", "0", "p">>),
              Leaf("release_group", <<"YTS.AM">>),
              Leaf("audio_codec", <<"Dolby Digital Plus">>),
              Leaf("video_codec", <<"H.264">>),
              Leaf("container", <<"mp4">>)>>),
          Leaf("id", <<"tt2562232">>),
          Leaf("originaltitle", <<"Birdman">>),
          Leaf("plot", <<"Awesome plot">>),
          Leaf("rating", <<"7", ".", "7">>),
          Leaf("runtime", <<"1", "1", "9">>),
          Leaf("sorttitle", <<"Birdman">>),
          Leaf("tagline", <<"or (The Unexpected Virtue of Ignorance)">>),
          Leaf("thumb",
               <<"https://image.tmdb.org/t/p/original/rSZs93P0LLxqlVEbI001UKoeCQC.jpg">>),
          Leaf("customfanart",
               <<"https://image.tmdb.org/t/p/original/AsJVim0Hk3KbQPbfjyijfjqmaoZ.jpg">>),
          Leaf("title", <<"Birdman">>),
          Leaf("tmdbid", <<"1", "9", "4", "6", "6", "2">>),
          Leaf("votes", <<"7", "4", "7">>),
          Leaf("year", <<"2", "0", "1", "4">>),
          Leaf("genre", <<"horror">>),
          Leaf("genre", <<"action">>)>>)

\* <movie></movie>
EmptyMovieDoc == Block("movie", <<>>)

\* The movies the codec is given: the movie of the tests, with each of some
\* fields at its value, at zero or at a value that needs care to write.
NfoGenres == {<<"horror">>, <<"action">>}

NfoMovies ==
    {[mockMovie EXCEPT !.title = t, !.year = y, !.rating = r, !.genres = g,
                       !.dateAdded = d, !.quality = q] :
        t \in {<<>>, <<"Birdman">>, <<"Fast ", "&", " <Furious>">>},
        y \in {0, 2014},
        r \in {0, 77, 80},
        g \in UNION {[1..n -> NfoGenres] : n \in 0..2},
        d \in {ZeroTime, now},
        q \in {<<>>, Quality720p}}
    \cup {ZeroMovie}

\* The documents the codec is given to read: the two of the tests, one with a
\* single element, and two that do not parse.
NfoDocuments ==
    {EmptyMovieDoc, movieNFOContent,
     Block("movie", <<Leaf("title", <<"Birdman">>)>>),
     Block("movie", <<Leaf("year", <<"2", "0", "x">>)>>),
     Block("movie", <<Leaf("title", <<"Fast ", "&", " Furious">>)>>)}

NoDoc == Block("", <<>>)

InitNfo ==
    /\ fs = MovieLayout
    /\ movieIndex = EmptyIndex
    /\ showIndex = EmptyIndex
    /\ last = NoCall
    /\ rb = Idle
    /\ ix = IndexIdle
    /\ other \in {[pc |-> "Write", given |-> "movie", m |-> m, doc |-> NoDoc,
                   got |-> ZeroMovie, err |-> Nil] : m \in NfoMovies}
            \cup {[pc |-> "Read", given |-> "document", m |-> ZeroMovie, doc |-> d,
                   got |-> ZeroMovie, err |-> Nil] : d \in NfoDocuments}

CallWrite ==
    /\ other.pc = "Write"
    /\ other' = [other EXCEPT !.pc = "Read", !.doc = Write(other.m)]
    /\ UNCHANGED <<fs, movieIndex, showIndex, last, rb, ix>>

CallRead ==
    /\ other.pc = "Read"
    /\ other' = [other EXCEPT !.pc = "returned", !.got = Read(other.doc).m,
                              !.err = Read(other.doc).err]
    /\ UNCHANGED <<fs, movieIndex, showIndex, last, rb, ix>>

NextNfo == CallWrite \/ CallRead

SpecNfo == InitNfo /\ [][NextNfo]_vars

(***************************************************************************)
(* Two DELETE requests for movies, served side by side.  Each handler       *)
(* (deleteMovie, part_000 lines 50-62) looks the movie up with getMovie and *)
(* hands it to Delete; DeleteMovie (part_002 lines 355-369) removes the      *)
(* directory and then the index entry, which the index does under its write *)
(* lock.  The library the requests meet is one that movie calls built.      *)
(***************************************************************************)
Requests == {"d1", "d2"}

NoRequest == [pc |-> "off", id |-> "", m |-> NoMovie, err |-> Nil]

\* A movie call before the requests arrive.
DeleteRaceAddMovie == other = NoOther /\ CallAddMovieOk

\* The two requests arrive, each for an indexed movie.
DeleteRaceStart ==
    /\ other = NoOther
    /\ \E id1, id2 \in DOMAIN movieIndex :
          other' = [pc |-> "DeleteMovie", lock |-> "none", mi0 |-> movieIndex,
                    req |-> [d1 |-> [NoRequest EXCEPT !.pc = "start", !.id = id1],
                             d2 |-> [NoRequest EXCEPT !.pc = "start", !.id = id2]]]
    /\ UNCHANGED <<fs, movieIndex, showIndex, last, rb, ix>>

DeleteRacing(r, pc) == other.pc = "DeleteMovie" /\ other.req[r].pc = pc

\* deleteMovie, lines 51-54: getMovie; on an error the handler renders it and
\* returns without calling Delete.
DeleteGetMovie(r) ==
    /\ DeleteRacing(r, "start")
    /\ LET got == GetMovie(World, other.req[r].id)
       IN other' = [other EXCEPT !.req[r] =
                       IF got.err # Nil THEN [@ EXCEPT !.pc = "rendered", !.err = got.err]
                       ELSE [@ EXCEPT !.pc = "resolved", !.m = got.m]]
    /\ UNCHANGED <<fs, movieIndex, showIndex, last, rb, ix>>

\* DeleteMovie, lines 357-362: os.RemoveAll of the movie's directory.
DeleteRemoveAll(r) ==
    /\ DeleteRacing(r, "resolved")
    /\ LET d == osRemoveAllDir(World, Dir(other.req[r].m.path), "RemoveMovieDir", {})
       IN /\ fs' = d.w.fs
          /\ other' = [other EXCEPT !.req[r] =
                          IF d.err # Nil THEN [@ EXCEPT !.pc = "rendered", !.err = d.err]
                          ELSE [@ EXCEPT !.pc = "removed"]]
    /\ UNCHANGED <<movieIndex, showIndex, last, rb, ix>>

\* movieIndex.Remove, line 364: the write lock is taken.
DeleteLock(r) ==
    /\ DeleteRacing(r, "removed")
    /\ other.lock = "none"
    /\ other' = [other EXCEPT !.lock = r, !.req[r].pc = "locked"]
    /\ UNCHANGED <<fs, movieIndex, showIndex, last, rb, ix>>

\* movieIndex.Remove, line 364: the entry is removed, or NotFound, and the lock
\* released; the handler renders what DeleteMovie returns, lines 56-61.
DeleteRemove(r) ==
    /\ DeleteRacing(r, "locked")
    /\ LET d == MovieIndexRemove(World, other.req[r].m)
       IN /\ movieIndex' = d.w.mi
          /\ other' = [other EXCEPT !.lock = "none", !.req[r].pc = "rendered",
                                    !.req[r].err = d.err]
    /\ UNCHANGED <<fs, showIndex, last, rb, ix>>

NextDeleteRace ==
    \/ DeleteRaceAddMovie
    \/ DeleteRaceStart
    \/ \E r \in Requests : DeleteGetMovie(r)
    \/ \E r \in Requests : DeleteRemoveAll(r)
    \/ \E r \in Requests : DeleteLock(r)
    \/ \E r \in Requests : DeleteRemove(r)

SpecDeleteRace == Init /\ [][NextDeleteRace]_vars

(***************************************************************************)
(* The HTTP server: httpServer (part_000, lines 78-207) registers the route *)
(* table on the router, stacks the middlewares and serves requests.  The    *)
(* call in progress is [pc, conf, i, routes, stack, served].                *)
(***************************************************************************)
Route(name, path, methods, handler, needsServeFiles) ==
    [name |-> name, path |-> path, methods |-> methods, handler |-> handler,
     needsServeFiles |-> needsServeFiles]

EpisodeRoute == "/shows/{id}/seasons/{season:[0-9]+}/episodes/{episode:[0-9]+}"

\* The route table, lines 97-171; excluded is !ServeFiles for the two downloads.
RouteTable ==
    << Route("GetMovies", "/movies", "GET", "movieIds", FALSE),
       Route("GetMovie", "/movies/{id}", "GET", "getMovieDetails", FALSE),
       Route("DeleteMovie", "/movies/{id}", "DELETE", "deleteMovie", FALSE),
       Route("DownloadMovie", "/movies/{id}/download", "GET", "serveMovie", TRUE),
       Route("GetShows", "/shows", "GET", "showIds", FALSE),
       Route("GetShow", "/shows/{id}", "GET", "getShowDetails", FALSE),
       Route("GetSeason", "/shows/{id}/seasons/{season:[0-9]+}", "GET",
             "getSeasonDetails", FALSE),
       Route("GetEpisode", EpisodeRoute, "GET", "getShowEpisodeIDDetails", FALSE),
       Route("DeleteEpisode", EpisodeRoute, "DELETE", "deleteEpisode", FALSE),
       Route("DownloadEpisode", EpisodeRoute \o "/download", "GET", "serveShow", TRUE),
       Route("Wishlist", "/wishlist", "GET", "deleteEpisode", FALSE),
       Route("AddTorrent", "/torrents", "POST", "addTorrent", FALSE) >>

\* The handlers that delete from the library: deleteMovie (lines 50-62) calls
\* library.Delete, and deleteEpisode is its counterpart for episodes.
DeletingHandlers == {"deleteMovie", "deleteEpisode"}

\* The configurations of the server: HTTPServer.ServeFiles,
\* HTTPServer.BasicAuth, and whether a token manager is set.
ServerConfigs == [serveFiles : BOOLEAN, basicAuth : BOOLEAN, tokens : BOOLEAN]

Methods == {"GET", "POST", "DELETE"}

\* No request has been served yet.
NoRequestServed == [method |-> "", path |-> "", handler |-> ""]

InitRoutes ==
    /\ fs = MovieLayout
    /\ movieIndex = EmptyIndex
    /\ showIndex = EmptyIndex
    /\ last = NoCall
    /\ rb = Idle
    /\ ix = IndexIdle
    /\ other \in {[pc |-> "routes", conf |-> c, i |-> 1, routes |-> <<>>,
                    stack |-> <<>>, served |-> NoRequestServed] : c \in ServerConfigs}

RoutesUnchanged == UNCHANGED <<fs, movieIndex, showIndex, last, rb, ix>>

\* Lines 172-174: an excluded route is passed over.
SkipRoute ==
    /\ other.pc = "routes" /\ other.i <= Len(RouteTable)
    /\ RouteTable[other.i].needsServeFiles /\ ~other.conf.serveFiles
    /\ other' = [other EXCEPT !.i = @ + 1]
    /\ RoutesUnchanged

\* Line 177: mux.HandleFunc(path, handler).Name(name).Methods(methods).
RegisterRoute ==
    /\ other.pc = "routes" /\ other.i <= Len(RouteTable)
    /\ ~(RouteTable[other.i].needsServeFiles /\ ~other.conf.serveFiles)
    /\ other' = [other EXCEPT !.i = @ + 1,
                              !.routes = Append(@, RouteTable[other.i])]
    /\ RoutesUnchanged

\* Lines 180-189: panic recovery, the logger and gzip.
UseCommon ==
    /\ other.pc = "routes" /\ other.i > Len(RouteTable)
    /\ other' = [other EXCEPT !.pc = "auth", !.stack = <<"recovery", "logrus", "gzip">>]
    /\ RoutesUnchanged

\* Lines 191-195: basic authentication, if configured.
UseBasicAuth ==
    /\ other.pc = "auth"
    /\ other' = [other EXCEPT !.pc = "token",
                              !.stack = IF other.conf.basicAuth THEN Append(@, "basicAuth")
                                        ELSE @]
    /\ RoutesUnchanged

\* Lines 197-201: the token middleware and its route, which names no method,
\* when a token manager is set; lines 203-206: the router is wrapped.
UseToken ==
    /\ other.pc = "token"
    /\ other' = [other EXCEPT
                    !.pc = "serving",
                    !.stack = IF other.conf.tokens THEN Append(@, "token") ELSE @,
                    !.routes = IF other.conf.tokens
                               THEN Append(@, Route("TokenGetAllowed", "/tokens/allowed",
                                                    "", "tokenGetAllowed", FALSE))
                               ELSE @]
    /\ RoutesUnchanged

\* The route the router matches a request with: the first registered route of
\* that path whose methods, if it names any, hold the request's.
Matches(route, method, path) ==
    route.path = path /\ (route.methods = "" \/ route.methods = method)

Dispatch(routes, method, path) ==
    LET hits == SelectSeq(routes, LAMBDA r : Matches(r, method, path))
    IN IF hits = <<>> THEN "notFound" ELSE Head(hits).handler

\* A request is served: served is the handler it ran.
ServeRequest ==
    /\ other.pc = "serving"
    /\ \E method \in Methods, k \in 1..Len(other.routes) :
          other' = [other EXCEPT !.served =
                       [method |-> method, path |-> other.routes[k].path,
                        handler |-> Dispatch(other.routes, method, other.routes[k].path)]]
    /\ RoutesUnchanged

NextRoutes ==
    \/ SkipRoute
    \/ RegisterRoute
    \/ UseCommon
    \/ UseBasicAuth
    \/ UseToken
    \/ ServeRequest

SpecRoutes == InitRoutes /\ [][NextRoutes]_vars

(***************************************************************************)
(* The transmission module (modules/transmission/transmission.go).  A       *)
(* Client is [params, tClient, configured]; params is NoParams while the    *)
(* embedded *Params is nil, and tClient is NoClient while it is nil.        *)
(***************************************************************************)
ErrMissingURL == "transmission: missing URL"
ErrMissingAuth == "transmission: missing authentication params"
ErrYaml == "yaml: unmarshal error"
ErrTransmissionNew == "transmission: new client error"

\* &Params{}: every field at its zero value.
ZeroParams == [url |-> "", checkSSL |-> FALSE, basicAuth |-> FALSE,
               user |-> "", password |-> ""]

NoParams == [ZeroParams EXCEPT !.url = "<nil>"]

NoClient == [address |-> "<nil>", user |-> "", password |-> "", skipSSL |-> FALSE]

\* &Client{}, line 20.
NewClient == [params |-> NoParams, tClient |-> NoClient, configured |-> FALSE]

\* The fields of Params by their yaml tags, lines 29-35.
ParamsTags == {"url", "check_ssl", "basic_auth", "user", "password"}

\* yaml.Unmarshal(p, params): [params, err].  A document is [yaml, pairs]:
\* whether it is yaml at all, and its <<tag, value>> pairs; a tag the document
\* does not hold leaves the field at its zero value, a tag it holds twice is an
\* error.
Unmarshal(doc) ==
    IF ~doc.yaml THEN [params |-> ZeroParams, err |-> ErrYaml]
    ELSE IF \E x, y \in doc.pairs : x[1] = y[1] /\ x[2] # y[2]
    THEN [params |-> ZeroParams, err |-> ErrYaml]
    ELSE LET get(tag, zero) == IF \E x \in doc.pairs : x[1] = tag
                               THEN (CHOOSE x \in doc.pairs : x[1] = tag)[2] ELSE zero
         IN [params |-> [url |-> get("url", ""),
                         checkSSL |-> get("check_ssl", "false") = "true",
                         basicAuth |-> get("basic_auth", "false") = "true",
                         user |-> get("user", ""),
                         password |-> get("password", "")],
             err |-> Nil]

\* checkConfig, lines 75-87.
checkConfig(c) ==
    IF c.params.url = "" THEN ErrMissingURL
    ELSE IF c.params.basicAuth /\ (c.params.user = "" \/ c.params.password = "")
    THEN ErrMissingAuth
    ELSE Nil

\* The client transmission.New builds from the configuration of lines 98-103.
ClientFor(params) ==
    [address |-> params.url, user |-> params.user, password |-> params.password,
     skipSSL |-> ~params.checkSSL]

\* setTransmissionClient, lines 89-113: [c, err]; transmission.New may fail.
setTransmissionClient(c, newFails) ==
    IF newFails THEN [c |-> c, err |-> ErrTransmissionNew]
    ELSE [c |-> [c EXCEPT !.tClient = ClientFor(c.params)], err |-> Nil]

\* InitWithParams(params), lines 58-73: [c, err].
InitWithParams(c, params, newFails) ==
    LET c1 == [c EXCEPT !.params = params]
    IN IF checkConfig(c1) # Nil THEN [c |-> c1, err |-> checkConfig(c1)]
       ELSE LET set == setTransmissionClient(c1, newFails)
            IN IF set.err # Nil THEN set
               ELSE [c |-> [set.c EXCEPT !.configured = TRUE], err |-> Nil]

\* Init(p), lines 44-56: [c, err].
ClientInit(c, doc, newFails) ==
    IF c.configured THEN [c |-> c, err |-> Nil]
    ELSE LET read == Unmarshal(doc)
         IN IF read.err # Nil THEN [c |-> c, err |-> read.err]
            ELSE InitWithParams(c, read.params, newFails)

\* The parameters a caller passes, and the documents a configuration holds.
ParamsInputs == [url : {"", "u"}, checkSSL : BOOLEAN, basicAuth : BOOLEAN,
                 user : {"", "x"}, password : {"", "p"}]

YamlValues == [url |-> {"u"}, check_ssl |-> {"true"}, basic_auth |-> {"true", "false"},
               user |-> {"x"}, password |-> {"p"}]

YamlPairs == UNION {{<<t, v>> : v \in YamlValues[t]} : t \in ParamsTags}

YamlDocuments == {[yaml |-> TRUE, pairs |-> ps] : ps \in SUBSET YamlPairs}
                 \cup {[yaml |-> FALSE, pairs |-> {}]}

InitTransmission ==
    /\ fs = MovieLayout
    /\ movieIndex = EmptyIndex
    /\ showIndex = EmptyIndex
    /\ last = NoCall
    /\ rb = Idle
    /\ ix = IndexIdle
    /\ other = [pc |-> "transmission", c |-> NewClient, op |-> "New", err |-> Nil]

TransmissionReturned(op, r) ==
    /\ other' = [other EXCEPT !.c = r.c, !.op = op, !.err = r.err]
    /\ UNCHANGED <<fs, movieIndex, showIndex, last, rb, ix>>

CallInit ==
    /\ other.pc = "transmission"
    /\ \E doc \in YamlDocuments, newFails \in BOOLEAN :
          TransmissionReturned("Init", ClientInit(other.c, doc, newFails))

CallInitWithParams ==
    /\ other.pc = "transmission"
    /\ \E params \in ParamsInputs, newFails \in BOOLEAN :
          TransmissionReturned("InitWithParams", InitWithParams(other.c, params, newFails))

NextTransmission == CallInit \/ CallInitWithParams

SpecTransmission == InitTransmission /\ [][NextTransmission]_vars

(***************************************************************************)
(* Properties.  A property of a call is stated of every call the library   *)
(* can receive in a reachable state: of each input and each failure the    *)
(* environment can inject.                                                 *)
(***************************************************************************)
Quiet == rb.pc = "idle"

\* The steps a call attempted, in order.
Ops(log) == [i \in 1..Len(log) |-> log[i].op]

\* Every step a call attempted succeeded.
AllOk(log) == \A i \in 1..Len(log) : log[i].ok

Attempted(log, op) == \E i \in 1..Len(log) : log[i].op = op

\* The step op was made and did not fail.
Succeeded(log, op) == \E i \in 1..Len(log) : log[i].op = op /\ log[i].ok

IsRegular(f, p) == FileExists(f, p) /\ f.files[p].kind = "data"

\* log[i] comes before log[j] whenever the first is one of ops1 and the second one
\* of ops2.
Before(log, ops1, ops2) ==
    \A i, j \in 1..Len(log) : (log[i].op \in ops1 /\ log[j].op \in ops2) => i < j

\* C1: for every indexed episode (S, N, E), after DeleteShowEpisode returns nil
\* HasEpisode(S, N, E) is false; when E was the last episode of season N the
\* season's entry and directory are gone, and when N was also the last season of
\* S the show's entry and directory are gone; when other episodes (seasons)
\* remain the season (show) entry and directory are kept.  In every run the
\* season check and its removals come before the show check and its removals.
C1_DeleteShowEpisodeCascades ==
    Quiet =>
    \A k \in IndexedEpisodes(showIndex), fail \in FailSets(DeleteShowEpisodeSteps) :
        LET got == GetEpisode(World, k[1], k[2], k[3])
            r == DeleteShowEpisode(World, got.ep, fail)
            lastOfSeason == DOMAIN showIndex[k[1]][k[2]] = {k[3]}
            lastOfShow == lastOfSeason /\ DOMAIN showIndex[k[1]] = {k[2]}
            seasonDir == getSeasonDir(got.ep)
            showDir == getShowDir(got.ep)
        IN (got.err = Nil /\ <<got.ep.showID, got.ep.season, got.ep.episode>> = k) =>
           /\ Before(r.w.log, {"IsSeasonEmpty", "RemoveSeasonDir", "RemoveSeason"},
                               {"IsShowEmpty", "RemoveShowDir", "RemoveShow"})
           /\ r.err = Nil =>
              /\ Attempted(r.w.log, "IsSeasonEmpty") /\ Attempted(r.w.log, "IsShowEmpty")
              /\ ~HasEpisode(r.w.si, k[1], k[2], k[3])
              /\ lastOfSeason =>
                    ~HasSeason(r.w.si, k[1], k[2]) /\ ~DirExists(r.w.fs, seasonDir)
              /\ lastOfShow =>
                    ~HasShow(r.w.si, k[1]) /\ ~DirExists(r.w.fs, showDir)
              /\ ~lastOfSeason =>
                    /\ HasSeason(r.w.si, k[1], k[2])
                    /\ DOMAIN r.w.si[k[1]][k[2]] = DOMAIN showIndex[k[1]][k[2]] \ {k[3]}
                    /\ DirExists(r.w.fs, seasonDir) <=> DirExists(fs, seasonDir)
              /\ ~lastOfShow =>
                    /\ HasShow(r.w.si, k[1])
                    /\ DOMAIN r.w.si[k[1]] = DOMAIN showIndex[k[1]] \ 
                          (IF lastOfSeason THEN {k[2]} ELSE {})
                    /\ DirExists(r.w.fs, showDir) <=> DirExists(fs, showDir)

\* C1 witness: DeleteShowEpisode has returned nil leaving its show indexed with a
\* single episode, in its season directory, and deleting that episode removes
\* the season and the show, entries and directories.
C1_Witness ==
    /\ Quiet /\ last.op = "DeleteShowEpisode" /\ last.err = Nil
    /\ \E k \in IndexedEpisodes(showIndex) :
          LET got == GetEpisode(World, k[1], k[2], k[3])
              r == DeleteShowEpisode(World, got.ep, {})
          IN /\ IndexedEpisodes(showIndex) = {k}
             /\ got.err = Nil
             /\ DirExists(fs, getSeasonDir(got.ep))
             /\ r.err = Nil
             /\ r.w.si = EmptyIndex
             /\ ~DirExists(r.w.fs, getShowDir(got.ep))

\* C2: in every state of the show index a season entry has at least one episode
\* entry and a show entry has at least one season entry, also in the states
\* DeleteShowEpisode leaves behind when it returns an error part-way.
C2_NonEmptyAncestors ==
    \A s \in DOMAIN showIndex :
        /\ DOMAIN showIndex[s] # {}
        /\ \A n \in DOMAIN showIndex[s] : DOMAIN showIndex[s][n] # {}

\* The canonical directory of the spec's scenarios: "<Title> (<Year>)" under the
\* movie root, "<Title>" alone when the year is 0.
CanonicalMovieDir(title, year) ==
    CASE title = "Foo" /\ year = 2020 -> <<"movies", "Foo (2020)">>
      [] title = "Foo" /\ year = 0 -> <<"movies", "Foo">>

\* C3: a movie with a source file outside its canonical directory and both
\* artwork URLs, every step succeeding: after AddMovie returns nil the file is at
\* <MovieRoot>/<Title> (<Year>)/<name> (<Title> alone when the year is 0) with
\* its sidecar next to it, the index maps the id to the new location, and the
\* source path no longer holds a regular file.
C3_AddMovieInstalls ==
    Quiet =>
    \A m \in MovieInputs(fs) :
     \A fail \in Failures(AddMovie(World, m, {}).w.log, AddMovieSteps) :
        LET dst == [dir |-> CanonicalMovieDir(m.title, m.year),
                    stem |-> m.path.stem, ext |-> m.path.ext]
            r == AddMovie(World, m, fail)
        IN (/\ m.path # EmptyPath
            /\ m.path.dir # CanonicalMovieDir(m.title, m.year)
            /\ m.fanart # "" /\ m.thumb # ""
            /\ r.err = Nil
            /\ AllOk(r.w.log))
           => /\ FileExists(r.w.fs, dst)
              /\ r.w.fs.files[dst] = fs.files[m.path]
              /\ NfoReadable(r.w.fs, WithExt(dst, "nfo"))
              /\ r.w.fs.files[WithExt(dst, "nfo")].val.id = m.id
              /\ m.id \in DOMAIN r.w.mi
              /\ r.w.mi[m.id] = dst
              /\ ~IsRegular(r.w.fs, m.path)

\* C3 witness: AddMovie has returned nil and both canonical directory names are
\* in use, one with the year suffix and one without.
C3_Witness ==
    /\ last.op = "AddMovie" /\ last.err = Nil
    /\ \E id \in DOMAIN movieIndex : movieIndex[id].dir = <<"movies", "Foo (2020)">>
    /\ \E id \in DOMAIN movieIndex : movieIndex[id].dir = <<"movies", "Foo">>

\* C4: ingesting an entity whose source file is already in its canonical
\* directory moves nothing and links nothing, but writes the sidecar and
\* registers the entity, so that Has(id) (HasEpisode) is true after the call.
C4_AlreadyInPlace ==
    Quiet =>
    /\ \A m \in MovieInputs(fs) :
          (m.path # EmptyPath /\ m.path.dir = CanonicalMovieDir(m.title, m.year)) =>
          LET r == AddMovie(World, m, {})
          IN /\ ~Attempted(r.w.log, "Rename") /\ ~Attempted(r.w.log, "Symlink")
             /\ AllOk(r.w.log) =>
                   /\ Attempted(r.w.log, "WriteNFO")
                   /\ MovieIndexHas(r.w, m.id)
    /\ \A ep \in EpisodeInputs(fs) :
          (ep.path # EmptyPath /\ ep.path.dir = getSeasonDir(ep)) =>
          LET r == AddShowEpisode(World, ep, {})
          IN /\ ~Attempted(r.w.log, "Rename") /\ ~Attempted(r.w.log, "Symlink")
             /\ AllOk(r.w.log) =>
                   /\ Attempted(r.w.log, "WriteNFO")
                   /\ HasEpisode(r.w.si, ep.showID, ep.season, ep.episode)

\* C5: AddMovie of an identifier already in the movie index deletes the indexed
\* copy, directory then index entry, before the new file is installed: after a
\* successful call the old directory does not exist unless it is the new
\* canonical directory, and the index holds the identifier, at the new file.
C5_AddMovieSupersedes ==
    Quiet =>
    \A m \in MovieInputs(fs) :
        (m.path # EmptyPath /\ MovieIndexHas(World, m.id)) =>
        LET r == AddMovie(World, m, {})
            old == movieIndex[m.id]
            dst == [dir |-> CanonicalMovieDir(m.title, m.year),
                    stem |-> m.path.stem, ext |-> m.path.ext]
        IN r.err = Nil =>
           /\ Before(r.w.log, {"RemoveMovieDir", "MovieIndexRemove"},
                               {"RemoveStoreDir", "Mkdir", "Rename", "MovieIndexAdd"})
           /\ old.dir # dst.dir => ~DirExists(r.w.fs, old.dir)
           /\ MovieIndexHas(r.w, m.id)
           /\ r.w.mi[m.id] = dst
           /\ FileExists(r.w.fs, dst)

\* C6: AddMovie with an empty fanart or thumb URL and a source file outside the
\* canonical directory never returns nil and never attempts a download; when it
\* returns the missing-image-URL error the file is in the canonical directory,
\* the sidecar is written and the movie is indexed; and that is the error it
\* returns when every step before the artwork check succeeded.
C6_MissingImageURL ==
    Quiet =>
    \A m \in {x \in MovieInputs(fs) :
                /\ x.fanart = "" \/ x.thumb = ""
                /\ x.path # EmptyPath
                /\ x.path.dir # CanonicalMovieDir(x.title, x.year)} :
     \A fail \in Failures(AddMovie(World, m, {}).w.log, AddMovieSteps) :
        LET r == AddMovie(World, m, fail)
            dst == [dir |-> CanonicalMovieDir(m.title, m.year),
                    stem |-> m.path.stem, ext |-> m.path.ext]
        IN /\ r.err # Nil
           /\ ~Attempted(r.w.log, "DownloadFanart")
           /\ ~Attempted(r.w.log, "DownloadThumb")
           /\ AllOk(r.w.log) => r.err = ErrMissingMovieImageURL
           /\ r.err = ErrMissingMovieImageURL =>
                 /\ FileExists(r.w.fs, dst)
                 /\ r.w.fs.files[dst] = fs.files[m.path]
                 /\ ~IsRegular(r.w.fs, m.path)
                 /\ NfoReadable(r.w.fs, WithExt(dst, "nfo"))
                 /\ r.w.fs.files[WithExt(dst, "nfo")].val.id = m.id
                 /\ MovieIndexHas(r.w, m.id)
                 /\ r.w.mi[m.id] = dst
                 /\ Ops(r.w.log)[Len(r.w.log)] = "MovieIndexAdd"

\* C6 witness: AddMovie has returned the missing-image-URL error and the index
\* holds a movie whose file and sidecar are in place, without artwork.
C6_Witness ==
    /\ Quiet /\ last.op = "AddMovie" /\ last.err = ErrMissingMovieImageURL
    /\ \E id \in DOMAIN movieIndex :
          LET p == movieIndex[id]
          IN /\ IsRegular(fs, p)
             /\ NfoReadable(fs, WithExt(p, "nfo"))
             /\ fs.files[WithExt(p, "nfo")].val.fanart = ""
             /\ ~FileExists(fs, FilePath(p.dir, p.stem, "jpg"))
             /\ ~FileExists(fs, FilePath(p.dir, p.stem \o "-fanart", "jpg"))

\* C7: AddMovie (AddShowEpisode) with an empty file path returns the
\* missing-file-path error having attempted nothing: indexes and filesystem are
\* unchanged, also when the identifier is already indexed.
C7_MissingFilePath ==
    Quiet =>
    /\ \A m \in {x \in MovieInputs(fs) : x.path = EmptyPath},
          fail \in FailSets(AddMovieSteps) :
          AddMovie(World, m, fail) = Ret(World, ErrMissingMovieFilePath)
    /\ \A ep \in {x \in EpisodeInputs(fs) : x.path = EmptyPath},
          fail \in FailSets(AddShowEpisodeSteps) :
          AddShowEpisode(World, ep, fail) = Ret(World, ErrMissingShowEpisodeFilePath)

\* C7 witness: AddShowEpisode has returned the missing-file-path error in a state
\* where episodes are indexed, and AddMovie would in a state where every movie id
\* is indexed.
C7_Witness ==
    \/ /\ last.op = "AddShowEpisode" /\ last.err = ErrMissingShowEpisodeFilePath
       /\ IndexedEpisodes(showIndex) # {}
    \/ /\ last.op = "AddMovie" /\ last.err = ErrMissingMovieFilePath
       /\ DOMAIN movieIndex = MovieIDs

\* C8: DeleteMovie removes the directory first and the index entry second; when
\* the removal of the directory fails the index is unchanged and the filesystem
\* error is returned.
C8_DeleteMovieOrder ==
    Quiet =>
    \A id \in DOMAIN movieIndex, fail \in FailSets(DeleteMovieSteps) :
        LET got == GetMovie(World, id)
            r == DeleteMovie(World, got.m, fail)
        IN got.err = Nil =>
           /\ Ops(r.w.log) \in {<<"RemoveMovieDir">>, <<"RemoveMovieDir", "MovieIndexRemove">>}
           /\ "RemoveMovieDir" \in fail =>
                 /\ r.err = ErrIO("RemoveMovieDir")
                 /\ r.w.mi = movieIndex
                 /\ Len(r.w.log) = 1
           /\ "RemoveMovieDir" \notin fail =>
                 /\ ~DirExists(r.w.fs, got.m.path.dir)
                 /\ Len(r.w.log) = 2
                 /\ r.err = Nil => got.m.id \notin DOMAIN r.w.mi

\* C8 witness: DeleteMovie has failed on the removal of the directory and the
\* movie index still holds entries.
C8_Witness ==
    /\ last.op = "DeleteMovie" /\ last.err = ErrIO("RemoveMovieDir")
    /\ movieIndex # EmptyIndex

\* The video files under the movie root whose sidecar reads as movie id.
MovieFilesOf(f, id) ==
    {p \in DOMAIN f.files :
        /\ IsPrefix(MovieDir, p.dir)
        /\ p.ext \in VideoExtentions
        /\ NfoReadable(f, WithExt(p, "nfo"))
        /\ f.files[WithExt(p, "nfo")].val.type = "movie"
        /\ f.files[WithExt(p, "nfo")].val.id = id}

\* The directories below the show root that hold a readable show sidecar.
ShowDirsOf(f) ==
    {d \in f.dirs :
        /\ IsPrefix(ShowDir, d) /\ d # ShowDir
        /\ NfoReadable(f, FilePath(d, "tvshow", "nfo"))
        /\ f.files[FilePath(d, "tvshow", "nfo")].val.type = "show"}

\* The video files under a show directory whose sidecar reads as an episode,
\* each with the key it is indexed under: the show of the directory, the season
\* and the episode of the sidecar.
EpisodeFilesOf(f) ==
    {x \in [key : ShowIDs \X Seasons \X Episodes, file : DOMAIN f.files] :
        /\ x.file.ext \in VideoExtentions
        /\ NfoReadable(f, WithExt(x.file, "nfo"))
        /\ f.files[WithExt(x.file, "nfo")].val.type = "episode"
        /\ x.key[2] = f.files[WithExt(x.file, "nfo")].val.season
        /\ x.key[3] = f.files[WithExt(x.file, "nfo")].val.episode
        /\ \E d \in ShowDirsOf(f) :
              /\ IsPrefix(d, x.file.dir)
              /\ x.key[1] = f.files[FilePath(d, "tvshow", "nfo")].val.id}

C10_RebuildIdempotent ==
    (rb.pc = "wait" /\ rb.wg = 0 /\ rb.prev.valid) =>
    /\ movieIndex = rb.prev.mi
    /\ showIndex = rb.prev.si

\* C10 witness: a second RebuildIndex in a row is about to return, in a library
\* that Add or Delete calls have changed before the first one, and both indexes
\* hold entries.
C10_Witness ==
    /\ rb.pc = "wait" /\ rb.wg = 0 /\ rb.prev.valid
    /\ last.n > 0
    /\ movieIndex # EmptyIndex
    /\ showIndex # EmptyIndex

\* The workers of the rebuild in progress that have not called wg.Done().
WorkersLeft ==
    (IF rb.mpc = "done" THEN 0 ELSE 1) + (IF rb.spc = "done" THEN 0 ELSE 1)

\* C11: RebuildIndex runs two workers, one per index, and returns only when both
\* are done.  While it runs the wait group counts the workers not yet done; a
\* step changes the movie (show) index only if it is the movie (show) worker
\* inserting or the Clear that precedes that worker's start; once a worker runs
\* no step takes an entry out of its index; and the step that returns finds
\* both workers done, their walks finished.
C11_RebuildWaitsForWorkers ==
    /\ [](rb.pc # "idle" => rb.wg = WorkersLeft /\ rb.wg <= 2)
    /\ [](rb.pc = "idle" => rb.mpc = "off" /\ rb.spc = "off")
    /\ [][rb.pc # "idle" =>
            /\ movieIndex' # movieIndex => rb.mpc = "run" /\ rb.mq # <<>>
            /\ showIndex' # showIndex =>
                  \/ rb.spc = "run" /\ rb.sq # <<>>
                  \/ rb.spc = "off" /\ showIndex' = EmptyIndex
            /\ rb.mpc = "run" => DOMAIN movieIndex \subseteq DOMAIN movieIndex'
            /\ rb.spc = "run" =>
                  IndexedEpisodes(showIndex) \subseteq IndexedEpisodes(showIndex')
            /\ rb'.pc = "idle" =>
                  /\ rb.mpc = "done" /\ rb.spc = "done"
                  /\ rb.mq = <<>> /\ rb.sq = <<>>]_vars

\* C11 witness: RebuildIndex is waiting, the show worker is done and has
\* inserted, the movie worker has inserted and has files left to read.
C11_Witness ==
    /\ rb.pc = "wait" /\ rb.wg = 1
    /\ rb.spc = "done" /\ showIndex # EmptyIndex
    /\ rb.mpc = "run" /\ rb.mq # <<>> /\ movieIndex # EmptyIndex

\* C12: errc has room for one error of each worker, so that a worker with an
\* error to send always finds room for it and RebuildIndex, once started,
\* returns; nothing is sent once wg.Wait() is over and errc is closed; it
\* returns nil if and only if neither worker returned an error, and
\* otherwise one error, which one of the two workers returned.
C12_ErrorChannel ==
    /\ [](Len(rb.errc) <= ErrcCap)
    /\ [](rb.mpc = "send" \/ rb.spc = "send" => Len(rb.errc) < ErrcCap)
    /\ [][Len(rb'.errc) > Len(rb.errc) => rb.pc # "idle" /\ rb.wg > 0]_vars
    /\ [][(rb.pc # "idle" /\ rb'.pc = "idle") =>
            /\ last'.op = "RebuildIndex"
            /\ last'.err = Nil <=> (rb.merr = Nil /\ rb.serr = Nil)
            /\ last'.err # Nil => last'.err \in {rb.merr, rb.serr}]_vars
    /\ (rb.pc # "idle") ~> (rb.pc = "idle")

\* C12 witness: both workers have returned an error, errc is full and
\* RebuildIndex is about to return.
C12_Witness ==
    /\ rb.pc = "wait" /\ rb.wg = 0
    /\ Len(rb.errc) = ErrcCap
    /\ rb.merr # Nil /\ rb.serr # Nil

\* The video files a running rebuild has yet to visit that cannot be read back.
UnreadableMovie(p) == newMovieFromPath(World, p).err # Nil

UnreadableEpisode(p) == newEpisodeFromPath(World, p).err # Nil

\* C13: a video file whose movie or episode cannot be read from its sidecar is
\* skipped and the scan goes on: the worker that visits it keeps the rest of its
\* walk, leaves its index alone and reports no error; and when RebuildIndex has
\* returned it has returned nil, with every movie and every episode that can be
\* read from the library in its index.
C13_UnreadableSkipped ==
    /\ [][/\ (rb.mpc = "run" /\ rb.mq # <<>> /\ rb'.mq # rb.mq
                 /\ UnreadableMovie(Head(rb.mq)))
             => /\ rb'.mpc = "run" /\ rb'.mq = Tail(rb.mq)
                /\ movieIndex' = movieIndex
                /\ rb'.errc = rb.errc
          /\ (rb.spc = "run" /\ rb.sq # <<>> /\ rb'.sq # rb.sq
                 /\ UnreadableEpisode(Head(rb.sq).file))
             => /\ rb'.spc = "run" /\ rb'.sq = Tail(rb.sq)
                /\ showIndex' = showIndex
                /\ rb'.errc = rb.errc]_vars
    /\ []((Quiet /\ last.op = "RebuildIndex") =>
            /\ last.err = Nil
            /\ \A id \in MovieIDs : MovieFilesOf(fs, id) # {} => MovieIndexHas(World, id)
            /\ \A x \in EpisodeFilesOf(fs) : x.key \in IndexedEpisodes(showIndex))

\* C13 witness: RebuildIndex has returned nil on a library with a movie file and
\* an episode file that cannot be read back, the episode file in a show
\* directory that was scanned, and both indexes hold the others.
C13_Witness ==
    /\ Quiet /\ last.op = "RebuildIndex" /\ last.err = Nil
    /\ movieIndex # EmptyIndex /\ showIndex # EmptyIndex
    /\ \E p \in VideoFilesUnder(fs, MovieDir) :
          /\ UnreadableMovie(p)
          /\ \E id \in MovieIDs : MovieIndexHas(World, id) /\ movieIndex[id] # p
    /\ \E d \in ShowDirsOf(fs) : \E p \in VideoFilesUnder(fs, d) :
          /\ UnreadableEpisode(p)
          /\ \E k \in IndexedEpisodes(showIndex) :
                IsPrefix(d, showIndex[k[1]][k[2]][k[3]].dir)

\* The worker whose walk runs into a directory that cannot be read.
MovieWalkFails(faults) == \E d \in faults.noread : IsPrefix(MovieDir, d)

ShowWalkFails(faults) == \E d \in faults.noread : IsPrefix(ShowDir, d)

\* C14 (as claimed): when the walk of a worker runs into a directory that
\* cannot be read, RebuildIndex returns an error.
C14_WalkFailureReturned ==
    [][(rb.pc = "wait" /\ rb'.pc = "idle"
          /\ (MovieWalkFails(rb.faults) \/ ShowWalkFails(rb.faults)))
       => last'.err # Nil]_vars

\* What the code does instead: whatever the walks run into, a RebuildIndex that
\* returns returns nil, and no worker ever has an error to send.
C14_WalkFailureSwallowed ==
    /\ [](rb.errc = <<>> /\ rb.merr = Nil /\ rb.serr = Nil)
    /\ [][(rb.pc = "wait" /\ rb'.pc = "idle") => last'.err = Nil]_vars

\* C15 (as claimed): RebuildIndex never panics.
C15_NoPanic == rb.pc # "panic"

\* Every step op of the log comes after a successful step pre.
OnlyAfter(log, op, pre) ==
    \A i \in 1..Len(log) :
        log[i].op = op => \E j \in 1..(i - 1) : log[j].op = pre /\ log[j].ok

\* The order of the steps of one call: an index entry is written after the
\* rename and the sidecar, and removed after the removal from disk.
DiskFirst(log) ==
    /\ OnlyAfter(log, "MovieIndexAdd", "Rename")
    /\ OnlyAfter(log, "MovieIndexAdd", "WriteNFO")
    /\ OnlyAfter(log, "ShowIndexAdd", "Rename")
    /\ OnlyAfter(log, "ShowIndexAdd", "WriteNFO")
    /\ OnlyAfter(log, "MovieIndexRemove", "RemoveMovieDir")
    /\ OnlyAfter(log, "RemoveEpisode", "RemoveEpisodeFile")
    /\ OnlyAfter(log, "RemoveSeason", "RemoveSeasonDir")
    /\ OnlyAfter(log, "RemoveShow", "RemoveShowDir")

\* The entries of after that before does not hold, or holds at another path.
NewMovies(before, after) ==
    {id \in DOMAIN after : id \notin DOMAIN before \/ after[id] # before[id]}

NewEpisodes(before, after) ==
    {k \in IndexedEpisodes(after) :
        \/ k \notin IndexedEpisodes(before)
        \/ after[k[1]][k[2]][k[3]] # before[k[1]][k[2]][k[3]]}

LinkFailSets(log, steps) == {{"Symlink"} \cup F : F \in Failures(log, steps)}

LinkFailed(log) == \E i \in 1..Len(log) : log[i].op = "Symlink" /\ ~log[i].ok

\* C17: when the link at the source path cannot be made, AddMovie and
\* AddShowEpisode go on as if it had been: the sidecar is written, the entity
\* is registered at its new path, the call returns what it returns when the link
\* is made, and leaves the same index and the same files but for the link;
\* whichever other step fails with it, the error returned is not the link's.
C17_LinkBestEffort ==
    Quiet =>
    /\ \A m \in MovieInputs(fs) :
          LET r0 == AddMovie(World, m, {})
              r == AddMovie(World, m, {"Symlink"})
              dst == JoinBase(getMovieDir(m), m.path)
          IN /\ LinkFailed(r.w.log) =>
                  /\ Attempted(r.w.log, "WriteNFO") /\ Attempted(r.w.log, "MovieIndexAdd")
                  /\ NfoReadable(r.w.fs, NfoPath(dst))
                  /\ r.w.fs.files[NfoPath(dst)].val.id = m.id
                  /\ MovieIndexHas(r.w, m.id) /\ r.w.mi[m.id] = dst
                  /\ r.err = r0.err
                  /\ r.w.mi = r0.w.mi
                  /\ r.w.fs = DelFile(r0.w.fs, m.path)
             /\ \A fail \in LinkFailSets(r.w.log, AddMovieSteps) :
                   AddMovie(World, m, fail).err # ErrIO("Symlink")
    /\ \A ep \in EpisodeInputs(fs) :
          LET r0 == AddShowEpisode(World, ep, {})
              r == AddShowEpisode(World, ep, {"Symlink"})
              dst == JoinBase(getSeasonDir(ep), ep.path)
          IN /\ LinkFailed(r.w.log) =>
                  /\ Attempted(r.w.log, "WriteNFO") /\ Attempted(r.w.log, "ShowIndexAdd")
                  /\ NfoReadable(r.w.fs, NfoPath(dst))
                  /\ HasEpisode(r.w.si, ep.showID, ep.season, ep.episode)
                  /\ r.w.si[ep.showID][ep.season][ep.episode] = dst
                  /\ r.err = r0.err
                  /\ r.w.si = r0.w.si
                  /\ r.w.fs = DelFile(r0.w.fs, ep.path)
             /\ \A fail \in LinkFailSets(r.w.log, AddShowEpisodeSteps) :
                   AddShowEpisode(World, ep, fail).err # ErrIO("Symlink")

\* C17 witness: the one call so far, an AddMovie, has returned nil; the movie is
\* indexed at a regular file with a readable sidecar and there is no link
\* anywhere, at the source path least of all.
C17_Witness ==
    /\ Quiet /\ last.op = "AddMovie" /\ last.err = Nil /\ last.n = 1
    /\ \E id \in DOMAIN movieIndex :
          /\ IsRegular(fs, movieIndex[id])
          /\ movieIndex[id].stem \in MovieStems
          /\ NfoReadable(fs, NfoPath(movieIndex[id]))
    /\ \A p \in DOMAIN fs.files : fs.files[p].kind # "link"

\* C18: Add, Delete and HasVideo of a video that is neither a movie nor an
\* episode return ErrInvalidIndexVideoType, attempt no step and leave the
\* filesystem and both indexes as they are; for a movie and for an episode they
\* are AddMovie and AddShowEpisode, DeleteMovie and DeleteShowEpisode, HasMovie
\* and HasShowEpisode: same result, same filesystem, same indexes, same steps.
C18_VideoDispatch ==
    Quiet =>
    /\ \A video \in OtherVideos, fail \in FailSets(AddShowEpisodeSteps \cup AddMovieSteps) :
          /\ Add(World, video, fail) = Ret(World, ErrInvalidIndexVideoType)
          /\ Delete(World, video, fail) = Ret(World, ErrInvalidIndexVideoType)
          /\ HasVideo(World, video) = [has |-> FALSE, err |-> ErrInvalidIndexVideoType]
    /\ \A m \in MovieInputs(fs) :
       \A fail \in Failures(AddMovie(World, m, {}).w.log, AddMovieSteps) :
          Add(World, [kind |-> "movie", v |-> m], fail) = AddMovie(World, m, fail)
    /\ \A ep \in EpisodeInputs(fs) :
       \A fail \in Failures(AddShowEpisode(World, ep, {}).w.log, AddShowEpisodeSteps) :
          Add(World, [kind |-> "episode", v |-> ep], fail) = AddShowEpisode(World, ep, fail)
    /\ \A video \in IndexedVideos(World) \ OtherVideos :
          /\ \A fail \in FailSets(DeleteMovieSteps \cup DeleteShowEpisodeSteps) :
                Delete(World, video, fail) =
                    IF video.kind = "movie" THEN DeleteMovie(World, video.v, fail)
                    ELSE DeleteShowEpisode(World, video.v, fail)
          /\ HasVideo(World, video).err = Nil
          /\ HasVideo(World, video).has <=>
                IF video.kind = "movie" THEN video.v.id \in DOMAIN movieIndex
                ELSE <<video.v.showID, video.v.season, video.v.episode>>
                         \in IndexedEpisodes(showIndex)

\* C18 witness: a call on a video of another kind has returned
\* ErrInvalidIndexVideoType in a library that holds an indexed video, which the
\* call before it has put there.
C18_Witness ==
    /\ Quiet /\ last.op \in {"Add", "Delete"} /\ last.n = 2
    /\ last.err = ErrInvalidIndexVideoType
    /\ movieIndex # EmptyIndex \/ showIndex # EmptyIndex
    /\ \E video \in IndexedVideos(World) \ OtherVideos : HasVideo(World, video).has

\* The movies handed to the index: an id and a path.
IndexMovies ==
    {[NoMovie EXCEPT !.id = id, !.path = p] :
        id \in MovieIDs,
        p \in {FilePath(FooDir, "a", "mkv"), FilePath(Foo2020Dir, "b", "mkv")}}

\* A library without a disk.
NoDisk == [World EXCEPT !.fs = [dirs |-> {}, files |-> <<>>]]

\* C19: whatever the movie index holds, after Add(m) the id of m is present at
\* the path of m, whether or not it was present before, and every other id is
\* as before; Remove and MoviePath of an absent id fail with NotFound and leave
\* the index as it is; after Remove of a present id the id is absent and every
\* other id is as before.  GetMovie and GetEpisode of what the index does not
\* hold return NotFound, disk or no disk.
C19_MovieIndexContract ==
    Quiet =>
    /\ \A m \in IndexMovies :
          LET r == MovieIndexAdd(World, m)
          IN /\ r.err = Nil
             /\ MovieIndexHas(r.w, m.id)
             /\ MoviePath(r.w, m.id) = [path |-> m.path, err |-> Nil]
             /\ DOMAIN r.w.mi = DOMAIN movieIndex \cup {m.id}
             /\ \A x \in DOMAIN movieIndex \ {m.id} : r.w.mi[x] = movieIndex[x]
             /\ MovieIndexAdd(r.w, m).w.mi = r.w.mi
    /\ \A m \in IndexMovies :
          LET r == MovieIndexRemove(World, m)
          IN IF MovieIndexHas(World, m.id)
             THEN /\ r.err = Nil
                  /\ ~MovieIndexHas(r.w, m.id)
                  /\ DOMAIN r.w.mi = DOMAIN movieIndex \ {m.id}
                  /\ \A x \in DOMAIN r.w.mi : r.w.mi[x] = movieIndex[x]
                  /\ MoviePath(World, m.id) = [path |-> movieIndex[m.id], err |-> Nil]
             ELSE /\ r.err = ErrNotFound
                  /\ r.w.mi = movieIndex
                  /\ MoviePath(World, m.id) = [path |-> EmptyPath, err |-> ErrNotFound]
    /\ \A id \in MovieIDs \ DOMAIN movieIndex :
          /\ GetMovie(World, id) = [m |-> NoMovie, err |-> ErrNotFound]
          /\ GetMovie(NoDisk, id) = GetMovie(World, id)
    /\ \A k \in (ShowIDs \X Seasons \X Episodes) \ IndexedEpisodes(showIndex) :
          /\ GetEpisode(World, k[1], k[2], k[3]) = [ep |-> NoEpisode, err |-> ErrNotFound]
          /\ GetEpisode(NoDisk, k[1], k[2], k[3]) = GetEpisode(World, k[1], k[2], k[3])

\* C19 witness: AddMovie has returned nil; one id is indexed, at a path other
\* than those handed to the index here, and the other id is absent, while the
\* disk holds a readable sidecar for a movie the index does not hold.
C19_Witness ==
    /\ Quiet /\ last.op = "AddMovie" /\ last.err = Nil
    /\ \E id \in DOMAIN movieIndex : \A m \in IndexMovies : m.path # movieIndex[id]
    /\ \E id \in MovieIDs \ DOMAIN movieIndex : MovieFilesOf(fs, id) # {}

\* The callers that are inside the index to write.
Writing == {w \in Writers : ix.pc[w] \in {"locked", "read", "entry", "stored"}}

EpisodeFiles(se) == {se.path, WithExt(se.path, "nfo"), WithExt(se.path, "srt")}

\* The world, the files in gone removed from the disk behind the library's back.
Without(gone) ==
    [World EXCEPT !.fs.files = [q \in (DOMAIN fs.files) \ gone |-> fs.files[q]]]

\* C21: DeleteShowEpisode of an indexed episode, whichever of its video file,
\* sidecar and subtitles are absent from the disk: the only error it returns is
\* that of a step the environment made fail, never one for a missing file; when
\* no step fails it returns nil having removed the episode's entry and run the
\* season and the show check, and leaves the indexes and the disk as the same
\* call does when the three files are there.
C21_DeleteEpisodeFilesAbsent ==
    Quiet =>
    \A k \in IndexedEpisodes(showIndex), fail \in FailSets(DeleteShowEpisodeSteps) :
        LET got == GetEpisode(World, k[1], k[2], k[3])
        IN (got.err = Nil /\ <<got.ep.showID, got.ep.season, got.ep.episode>> = k) =>
           \A gone \in SUBSET EpisodeFiles(got.ep) :
              LET r == DeleteShowEpisode(Without(gone), got.ep, fail)
                  full == DeleteShowEpisode(World, got.ep, fail)
              IN /\ r.err # Nil => \E op \in fail : r.err = ErrIO(op)
                 /\ fail = {} =>
                       /\ r.err = Nil
                       /\ ~HasEpisode(r.w.si, k[1], k[2], k[3])
                       /\ Attempted(r.w.log, "IsSeasonEmpty")
                       /\ Attempted(r.w.log, "IsShowEmpty")
                 /\ r.err = full.err
                 /\ r.w.si = full.w.si /\ r.w.mi = full.w.mi
                 /\ r.err = Nil =>
                       \A p \in EpisodeFiles(got.ep) : ~FileExists(r.w.fs, p)

\* C21 witness: a DeleteShowEpisode has failed after it removed the video file,
\* so an indexed episode has its sidecar and no video file, and deleting it
\* again returns nil and removes its entry.
C21_Witness ==
    /\ Quiet /\ last.op = "DeleteShowEpisode" /\ last.err = ErrIO("RemoveEpisodeNfo")
    /\ \E k \in IndexedEpisodes(showIndex) :
          LET got == GetEpisode(World, k[1], k[2], k[3])
              r == DeleteShowEpisode(World, got.ep, {})
          IN /\ got.err = Nil
             /\ <<got.ep.showID, got.ep.season, got.ep.episode>> = k
             /\ ~FileExists(fs, got.ep.path)
             /\ ~FileExists(fs, WithExt(got.ep.path, "srt"))
             /\ r.err = Nil
             /\ ~HasEpisode(r.w.si, k[1], k[2], k[3])

\* The four qualities, as the claim names them.
FourQualities ==
    {<<"4", "8", "0", "p">>, <<"7", "2", "0", "p">>, <<"1", "0", "8", "0", "p">>,
     <<"3", "D">>}

\* C22: GetQuality of one of the four strings 480p, 720p, 1080p and 3D returns
\* the quality of that name and no error; of any other string, the empty one and
\* the case variants included, it returns ErrInvalidQuality and the empty
\* quality, which is none of the four.
C22_GetQualityClosed ==
    other.pc = "returned" =>
       /\ other.s \in FourQualities => other.q = other.s /\ other.err = Nil
       /\ other.s \notin FourQualities =>
             /\ other.err = ErrInvalidQuality
             /\ other.q = <<>>
             /\ other.q \notin FourQualities
       /\ other.err = Nil <=> other.q \in FourQualities

\* C22 witness: GetQuality has returned ErrInvalidQuality and the empty quality
\* for 1080P, a case variant of a quality.
C22_Witness ==
    /\ other.pc = "returned"
    /\ other.s = <<"1", "0", "8", "0", "P">>
    /\ other.err = ErrInvalidQuality
    /\ other.q = <<>>

C25_AddMovieNilIndexed ==
    Quiet =>
    \A m \in MovieInputs(fs) :
     \A fail \in Failures(AddMovie(World, m, {}).w.log, AddMovieSteps) :
        LET r == AddMovie(World, m, fail)
        IN r.err = Nil =>
           /\ MovieIndexHas(r.w, m.id)
           /\ FileExists(r.w.fs, r.w.mi[m.id])

\* The same, of the movies whose source file is outside their canonical
\* directory.
AddMovieNilIndexedOutside ==
    Quiet =>
    \A m \in {x \in MovieInputs(fs) :
                x.path # EmptyPath /\ Dir(x.path) # getMovieDir(x)} :
     \A fail \in Failures(AddMovie(World, m, {}).w.log, AddMovieSteps) :
        LET r == AddMovie(World, m, fail)
        IN r.err = Nil =>
           /\ MovieIndexHas(r.w, m.id)
           /\ FileExists(r.w.fs, r.w.mi[m.id])

\* C26: after any sequence of AddMovie and DeleteMovie calls that each returned
\* without error, every id of the movie index maps to a path at which a file
\* exists, also when two movies with different ids have the same title and year.
C26_IndexedMovieFilesExist ==
    \A id \in DOMAIN movieIndex : FileExists(fs, movieIndex[id])

\* C27: DeleteMovie of an indexed movie, returning nil, leaves every other
\* indexed movie its index entry and its file on disk, also when the deleted
\* movie's file is directly in the movie root or in the directory of another
\* indexed movie.
C27_DeleteMovieFrame ==
    Quiet =>
    \A id \in DOMAIN movieIndex :
        LET got == GetMovie(World, id)
            r == DeleteMovie(World, got.m, {})
        IN (got.err = Nil /\ got.m.id = id /\ r.err = Nil) =>
           \A x \in (DOMAIN movieIndex) \ {id} :
              /\ MovieIndexHas(r.w, x)
              /\ r.w.mi[x] = movieIndex[x]
              /\ FileExists(fs, movieIndex[x]) => FileExists(r.w.fs, movieIndex[x])

\* The path the show index has for an episode <<show, season, episode>>.
IndexedPath(si, k) == si[k[1]][k[2]][k[3]]

\* The paths of the indexed episodes.
IndexedPaths(si) == {IndexedPath(si, k) : k \in IndexedEpisodes(si)}

\* No two indexed episodes are the same file.
DistinctFiles(si) ==
    \A j, k \in IndexedEpisodes(si) : IndexedPath(si, j) = IndexedPath(si, k) => j = k

ShowNfoExists(f, ep) == FileExists(f, showNFOPath(getShowDir(ep)))

\* addShow as AddShowEpisode(ep) runs it under fail: the world it starts from,
\* sup, is the one the supersede leaves; mat is what addShow returns there and
\* all what the whole call returns.
Materialization(ep, fail) ==
    LET sup == AddShowEpisodeSupersede(World, ep, fail)
    IN [sup |-> sup,
        mat |-> addShow([sup.w EXCEPT !.log = <<>>], ep, fail),
        all |-> AddShowEpisode(World, ep, fail)]

\* Show materialization as addShow runs it, but for the state of the index
\* after a fatal error: details are fetched only without sidecar and without
\* attached Show; with the sidecar on disk nothing is done; a non-fatal error
\* leaves a sidecar of the minimal show; a fatal error ends the call with the
\* filesystem as the supersede left it.
MaterializationSteps(ep, fail) ==
    LET x == Materialization(ep, fail)
        dir == getShowDir(ep)
        before == x.sup.w.fs
    IN x.sup.err = Nil =>
       /\ ShowNfoExists(before, ep) =>
             /\ x.mat.err = Nil /\ x.mat.w.log = <<>>
             /\ x.mat.w.fs = before /\ x.mat.w.si = x.sup.w.si
       /\ Attempted(x.mat.w.log, "GetDetails") =>
             ~ShowNfoExists(before, ep) /\ ep.show = NoShow
       /\ (~ShowNfoExists(before, ep) /\ ep.show = NoShow) =>
             /\ Attempted(x.mat.w.log, "GetDetails")
             /\ fail = {"GetDetails"} =>
                   /\ DirExists(x.mat.w.fs, dir)
                   /\ Succeeded(x.mat.w.log, "WriteShowNFO")
                   /\ NfoReadable(x.mat.w.fs, showNFOPath(dir))
                   /\ x.mat.w.fs.files[showNFOPath(dir)].val =
                         ShowNfo(NewShowFromEpisode(ep))
                   /\ x.all.err = ErrMissingShowImageURL
             /\ fail = {"GetDetailsFatal"} =>
                   /\ x.all.err = ErrDetailsFatal
                   /\ ~Attempted(x.all.w.log, "MkdirShow")
                   /\ ~Attempted(x.all.w.log, "Rename")
                   /\ x.all.w.fs = before

AddCalls == {x \in EpisodeInputs(fs) : x.path # EmptyPath}

\* What the index is after a call that GetDetails ends with a fatal error.
AfterFatal(ep, fail, Index(_, _)) ==
    LET x == Materialization(ep, fail)
    IN (/\ fail = {"GetDetailsFatal"}
        /\ x.sup.err = Nil
        /\ Attempted(x.mat.w.log, "GetDetails")) => Index(x.sup.w.si, x.all.w.si)

\* C29: addShow does nothing when tvshow.nfo is in the show directory; without
\* it and without a Show on the episode, a non-fatal GetDetails error is
\* followed by the writing of the sidecar, and a fatal one ends AddShowEpisode
\* with no show directory made, the episode not moved and the index as it was
\* before the call.
C29_ShowMaterialization ==
    Quiet =>
    \A ep \in AddCalls :
     \A fail \in Failures(AddShowEpisode(World, ep, {}).w.log, AddShowEpisodeSteps) :
        /\ MaterializationSteps(ep, fail)
        /\ AfterFatal(ep, fail, LAMBDA sup, all : all = showIndex)

\* C29, amended: as above, but after a fatal GetDetails error the index is as
\* the supersede left it: the episode is not registered by this call, and the
\* index is as before the call only when no episode was indexed under the
\* triple.
C29_ShowMaterializationAfterSupersede ==
    Quiet =>
    \A ep \in AddCalls :
     \A fail \in Failures(AddShowEpisode(World, ep, {}).w.log, AddShowEpisodeSteps) :
        /\ MaterializationSteps(ep, fail)
        /\ AfterFatal(ep, fail, LAMBDA sup, all :
              /\ all = sup
              /\ ~HasEpisode(showIndex, ep.showID, ep.season, ep.episode) =>
                    all = showIndex)

\* An episode was added and linked back, and the last call, for an episode
\* without a Show, ended on a fatal GetDetails error after the supersede had
\* emptied the index: the link is left without its file, no show directory has
\* been made and nothing is indexed.
C29_Witness ==
    /\ Quiet /\ last.op = "AddShowEpisode" /\ last.err = ErrDetailsFatal
    /\ IndexedEpisodes(showIndex) = {}
    /\ \A t \in ShowTitles : ~DirExists(fs, JoinDir(ShowDir, t))
    /\ \E p \in DOMAIN fs.files :
          /\ fs.files[p].kind = "link"
          /\ fs.files[p].target.dir = JoinDir(JoinDir(ShowDir, "Bar"), "Season 1")
          /\ ~FileExists(fs, fs.files[p].target)


\* The show of ep is materialized: its sidecar and its three images are in the
\* show directory.
ShowMaterialized(f, ep) ==
    /\ ShowNfoExists(f, ep)
    /\ \A img \in {"fanart", "poster", "banner"} :
          FileExists(f, FilePath(getShowDir(ep), img, "jpg"))

\* C30: after an AddShowEpisode that failed with MissingShowImageURL, no
\* AddShowEpisode registers an episode of a show whose sidecar and fanart,
\* poster and banner images are not all in the show directory when it returns.
C30_IndexedOnlyMaterialized ==
    (Quiet /\ last.op = "AddShowEpisode" /\ last.err = ErrMissingShowImageURL) =>
    \A ep \in AddCalls :
     \A fail \in Failures(AddShowEpisode(World, ep, {}).w.log, AddShowEpisodeSteps) :
        LET r == AddShowEpisode(World, ep, fail)
        IN (/\ r.err = Nil
            /\ ~HasEpisode(showIndex, ep.showID, ep.season, ep.episode)
            /\ HasEpisode(r.w.si, ep.showID, ep.season, ep.episode)) =>
              ShowMaterialized(r.w.fs, ep)

\* The immediate child directory of the show root that p lies in.
TopShowDir(p) == SubSeq(p.dir, 1, Len(ShowDir) + 1)

\* C31: after RebuildIndex returns, every indexed episode was read below an
\* immediate child directory of the show root whose own tvshow.nfo is readable,
\* and is indexed under the show of that sidecar: no directory nested deeper is
\* taken for a show directory, and a child directory without a readable sidecar
\* gives the index no episode.
C31_ShowScanTopLevelOnly ==
    (Quiet /\ last.op = "RebuildIndex") =>
    \A k \in IndexedEpisodes(showIndex) :
       LET p == IndexedPath(showIndex, k)
           nfo == showNFOPath(TopShowDir(p))
       IN /\ IsPrefix(ShowDir, p.dir) /\ Len(p.dir) > Len(ShowDir)
          /\ NfoReadable(fs, nfo)
          /\ fs.files[nfo].val.type = "show"
          /\ fs.files[nfo].val.id = k[1]

\* Both requests are for the movie id, both found it, and both are answered.
BothDeleted(id) ==
    /\ other.pc = "DeleteMovie"
    /\ \A r \in Requests :
          /\ other.req[r].pc = "rendered"
          /\ other.req[r].id = id
          /\ other.req[r].m.id = id

\* C32: when two DeleteMovie calls for the same indexed movie, each with the
\* movie resolved before either removed it, have both returned, one returned nil
\* and the other the NotFound of the index; the movie's file is not on disk, the
\* movie is not in the MovieIndex, and every other entry of the index is as it
\* was when the requests arrived.
C32_ConcurrentDeleteMovie ==
    \A id \in MovieIDs :
       BothDeleted(id) =>
          /\ {other.req[r].err : r \in Requests} = {Nil, ErrNotFound}
          /\ id \notin DOMAIN movieIndex
          /\ ~FileExists(fs, other.req["d1"].m.path)
          /\ ~FileExists(fs, other.req["d2"].m.path)
          /\ DOMAIN movieIndex = (DOMAIN other.mi0) \ {id}
          /\ \A x \in DOMAIN movieIndex : movieIndex[x] = other.mi0[x]

\* Two requests for the same movie are answered, the second to arrive with nil
\* and the first with NotFound, while another movie is indexed.
C32_Witness ==
    /\ \E id \in MovieIDs : BothDeleted(id)
    /\ other.req["d1"].err = ErrNotFound
    /\ other.req["d2"].err = Nil
    /\ movieIndex # EmptyIndex


\* The routes registered so far, as a set.
Registered == {other.routes[k] : k \in 1..Len(other.routes)}

\* The download routes are registered exactly when ServeFiles is enabled.
DownloadRoutesIffServeFiles ==
    (other.pc \in {"auth", "token", "serving"}) =>
       \A name \in {"DownloadMovie", "DownloadEpisode"} :
          (\E r \in Registered : r.name = name) <=> other.conf.serveFiles

\* C33: every registered route bound to a handler that deletes from the library
\* is registered with method DELETE, no request of another method is served by a
\* deleting handler, and once the table is registered the two download routes
\* are in it if and only if ServeFiles is enabled.
C33_DeleteOnlyByDeleteRoute ==
    (other.pc \in {"routes", "auth", "token", "serving"}) =>
       /\ \A r \in Registered : r.handler \in DeletingHandlers => r.methods = "DELETE"
       /\ (other.pc = "serving" /\ other.served # NoRequestServed) =>
             (other.served.handler \in DeletingHandlers => other.served.method = "DELETE")
       /\ DownloadRoutesIffServeFiles

\* Once configured, Init returns nil and leaves the client as it is, whatever
\* the document.
InitNoOpWhenConfigured ==
    (other.pc = "transmission" /\ other.c.configured) =>
       \A doc \in YamlDocuments, newFails \in BOOLEAN :
          ClientInit(other.c, doc, newFails) = [c |-> other.c, err |-> Nil]

\* C34: in every state a sequence of Init and InitWithParams calls reaches, a
\* configured client holds valid parameters (a URL, and a user and a password
\* when basic auth is on) and the transmission client built from them; and for
\* a configured client Init returns nil and changes nothing.
C34_ConfiguredIsValid ==
    (other.pc = "transmission" /\ other.c.configured) =>
       /\ checkConfig(other.c) = Nil
       /\ other.c.tClient = ClientFor(other.c.params)
       /\ InitNoOpWhenConfigured
====
